---- MODULE Spec2Model ----
(***************************************************************************)
(* sharky: managed buffers (struct sharkybuf), the producer/consumer page  *)
(* hand-off over a pipe (hamming / catlines / checkwords) and the arena    *)
(* that backs the skip-list index (struct sdict).                          *)
(*                                                                         *)
(* Memory is modelled by bytes: a region is a sequence of small naturals,  *)
(* 0 is '\0'.  A struct sharkybuf is a record; its field mem is the        *)
(* content of the region addr points to (the region has one owner).        *)
(* Addresses are naturals, 0 is NULL, writer_ptr is an absolute address.   *)
(***************************************************************************)
EXTENDS Integers, Sequences, FiniteSets, TLC

VARIABLES
    page_size,  \* sysconf(_SC_PAGESIZE) of the run
    inp,        \* argv as parsed by main: max_ed, name, consumer variant
    prod,       \* the parent process: hamming() and its locals; region counts
                \* the mappings it has made (the current one is number region),
                \* freed lists the numbers of those it has unmapped
    cons,       \* the child process: catlines()/checkwords() and its locals;
                \* region and freed as for the parent, for posix_memalign
                \* and free
    pipe,       \* the pipe: bytes in flight and who holds which end
    out,        \* bytes written to standard output so far
    hist,       \* history: what the producer generated, flushed and gifted
    hb,         \* buffer harness: one struct sharkybuf driven through sb_*
    hop,        \* buffer harness: the last sb_* call, its input and result
    sd,         \* arena harness: one struct sdict (the skip-list part)
    aop,        \* arena harness: the last sdict_sl_* call and its result
    scen        \* which program/harness this behaviour runs

vars == <<page_size, inp, prod, cons, pipe, out, hist, hb, hop, sd, aop, scen>>

----------------------------------------------------------------------------
(* Bounds of the model *)

\* page size of the buffer harness
HarnessPage == 4
\* largest buffer of the harness, in bytes
HarnessMaxLen == 12
\* largest grow step of sb_realloc in the harness
HarnessMaxGrow == 2
\* appends the harness makes to a buffer between two wipes
HarnessMaxAppends == 4
\* page size of the producer/consumer runs
PipePage == 6
\* bytes the pipe holds before a writer blocks
PipeCap == 3
\* longest name passed to main
MaxNameLen == 2
\* largest max edit distance passed to main
MaxEd == 1
\* letters the enumeration substitutes, counted from 'a'
AlphabetSize == 2
\* page size of the run for the name "bob"
BobPage == 16
\* page size of the runs of catlines on a given buffer and stream
IoPage == 4
\* longest stream these runs read
IoMaxStream == 5
\* main is started with argc in 1..MaxArgc
MaxArgc == 5
\* page size of the arena harness
ArenaPage == 256
\* sdict_sl_allocnode calls the arena harness makes after sdict_sl_init
ArenaMaxCalls == 7

\* bytes
NUL == 0
LF == 10
CharA == 97
CharZ == 122

SHARKYBUF_STRATEGY_UNALLOCATED == 0
SHARKYBUF_STRATEGY_MMAP == 1
SHARKYBUF_STRATEGY_POSIX_MEMALIGN == 2
SHARKYBUF_STRATEGY_MALLOC == 3

MAX_NAME_LEN == 50
MAX_ED_LIMIT == 10
SKIPLIST_MAX_LEVELS == 30
SKIPLIST_UNROLLED_DATAITEMS == 5

\* sizes of the LP64 build
SizeofInt == 4
SizeofPtr == 8
\* sizeof(struct skiplist_node): two ints, then the flexible array
SizeofNode == 8
\* sizeof(struct sharkybuf): int, void*, size_t, bool, char*, size_t, padded
SizeofSharkybuf == 48

----------------------------------------------------------------------------
(* Helpers on byte sequences *)

Min(a, b) == IF a <= b THEN a ELSE b

Zeros(n) == [i \in 1..n |-> NUL]

\* s[a..b] (1-based, empty when a > b)
Slice(s, a, b) == SubSeq(s, a, b)

\* memcpy/memset style store of the bytes bs at offset off (0-based) of mem
Store(mem, off, bs) ==
    IF off >= Len(mem) THEN mem
    ELSE SubSeq(mem, 1, off)
            \o SubSeq(bs, 1, Min(Len(bs), Len(mem) - off))
            \o SubSeq(mem, off + Len(bs) + 1, Len(mem))

\* the C string stored at the start of bs: the bytes before the first '\0'
RECURSIVE CStr(_)
CStr(bs) ==
    IF bs = <<>> \/ Head(bs) = NUL THEN <<>>
    ELSE <<Head(bs)>> \o CStr(Tail(bs))

\* snprintf(dst, size, "%s\n", line): the bytes it writes at dst.
\* With size = 0 nothing is written; otherwise at most size-1 bytes of the
\* formatted text followed by one '\0'.
snprintf_written(size, line) ==
    IF size = 0 THEN <<>>
    ELSE Slice(line \o <<LF>>, 1, Min(Len(line) + 1, size - 1)) \o <<NUL>>

\* its return value: the length the full text has, '\0' not counted
snprintf_rv(line) == Len(line) + 1

----------------------------------------------------------------------------
(* struct sharkybuf and the sb_* functions *)

\* a struct sharkybuf with every field cleared
sb_unallocated ==
    [strategy |-> SHARKYBUF_STRATEGY_UNALLOCATED, addr |-> 0, len |-> 0,
     dirty |-> FALSE, writer_ptr |-> 0, writer_len_remaining |-> 0,
     mem |-> <<>>]

sb_create_mmap_pre(len) == len % page_size = 0

sb_create_mmap(addr, len) ==
    [strategy |-> SHARKYBUF_STRATEGY_MMAP, addr |-> addr, len |-> len,
     dirty |-> FALSE, writer_ptr |-> addr, writer_len_remaining |-> len,
     mem |-> Zeros(len)]

sb_create_posix_memalign_pre(len) == len % page_size = 0

sb_create_posix_memalign(addr, len) ==
    [strategy |-> SHARKYBUF_STRATEGY_POSIX_MEMALIGN, addr |-> addr, len |-> len,
     dirty |-> FALSE, writer_ptr |-> addr, writer_len_remaining |-> len,
     mem |-> Zeros(len)]

sb_create_malloc_pre(len) == len > 0

\* variant: the memset left out, malloc's memory holds what it held
sb_create_malloc_nozero(addr, len) ==
    [strategy |-> SHARKYBUF_STRATEGY_MALLOC, addr |-> addr, len |-> len,
     dirty |-> FALSE, writer_ptr |-> addr, writer_len_remaining |-> len,
     mem |-> [i \in 1..len |-> CharA]]

sb_create_malloc(addr, len) ==
    [strategy |-> SHARKYBUF_STRATEGY_MALLOC, addr |-> addr, len |-> len,
     dirty |-> FALSE, writer_ptr |-> addr, writer_len_remaining |-> len,
     mem |-> Zeros(len)]

sb_realloc_pre(sb, new_len) ==
    /\ sb.strategy = SHARKYBUF_STRATEGY_MALLOC
    /\ new_len > 0
    /\ new_len > sb.len

\* variant: the writer head is not moved along with the region
sb_realloc_stale_ptr(sb, new_len, new_addr) ==
    [sb EXCEPT
        !.addr = new_addr,
        !.len = new_len,
        !.writer_len_remaining = sb.writer_len_remaining + (new_len - sb.len),
        !.mem = sb.mem \o Zeros(new_len - sb.len)]

\* variant: the memset of the new part is left out
sb_realloc_tail_unset(sb, new_len, new_addr) ==
    [sb EXCEPT
        !.addr = new_addr,
        !.len = new_len,
        !.writer_ptr = sb.writer_ptr + (new_addr - sb.addr),
        !.writer_len_remaining = sb.writer_len_remaining + (new_len - sb.len),
        !.mem = sb.mem \o [i \in 1..(new_len - sb.len) |-> CharA]]

\* realloc returned new_addr (the old address or another one)
sb_realloc(sb, new_len, new_addr) ==
    LET old_addr == sb.addr
        old_len == sb.len
        len_delta == new_len - old_len
        addr_delta == new_addr - old_addr
    IN [sb EXCEPT
            !.addr = new_addr,
            !.len = new_len,
            !.writer_ptr = sb.writer_ptr + addr_delta,
            !.writer_len_remaining = sb.writer_len_remaining + len_delta,
            !.mem = sb.mem \o Zeros(new_len - old_len)]

\* variant: the default case of sb_dispose returns
sb_dispose_aborts_lenient(sb) ==
    /\ sb.strategy \in {SHARKYBUF_STRATEGY_POSIX_MEMALIGN,
                         SHARKYBUF_STRATEGY_MALLOC}
    /\ sb.addr = 0

\* sb_dispose reaches abort() (default case) or a failing assert
sb_dispose_aborts(sb) ==
    \/ sb.strategy \notin {SHARKYBUF_STRATEGY_MMAP,
                           SHARKYBUF_STRATEGY_POSIX_MEMALIGN,
                           SHARKYBUF_STRATEGY_MALLOC}
    \/ /\ sb.strategy \in {SHARKYBUF_STRATEGY_POSIX_MEMALIGN,
                           SHARKYBUF_STRATEGY_MALLOC}
       /\ sb.addr = 0

\* sb_dispose_munmap_ and sb_dispose_free_ clear the struct the same way
sb_dispose(sb) ==
    [strategy |-> SHARKYBUF_STRATEGY_UNALLOCATED, addr |-> 0, len |-> 0,
     dirty |-> FALSE, writer_ptr |-> 0, writer_len_remaining |-> 0,
     mem |-> <<>>]

sb_wipe_pre(sb) == sb.addr # 0

\* variant: the dirty flag is not reset
sb_wipe_keeps_dirty(sb) ==
    [sb EXCEPT
        !.mem = Zeros(sb.len),
        !.writer_ptr = sb.addr,
        !.writer_len_remaining = sb.len]

sb_wipe(sb) ==
    [sb EXCEPT
        !.mem = Zeros(sb.len),
        !.writer_ptr = sb.addr,
        !.writer_len_remaining = sb.len,
        !.dirty = FALSE]

\* offset of the writer head in the region
WriterOff(sb) == sb.writer_ptr - sb.addr

sb_append_pre(sb) == sb.addr # 0

\* variant: > for >=
append_truncated_gt(sb, line) == snprintf_rv(line) > sb.writer_len_remaining

\* the test after snprintf: the text was truncated (or left no room for '\0')
append_truncated(sb, line) == snprintf_rv(line) >= sb.writer_len_remaining

\* variant: the writer head also steps over the '\0'
sb_append_line_or_zeroes_past_nul(sb, line) ==
    LET snp_rv == snprintf_rv(line)
        printed == Store(sb.mem, WriterOff(sb),
                         snprintf_written(sb.writer_len_remaining, line))
    IN IF append_truncated(sb, line)
       THEN [sb EXCEPT
                !.dirty = TRUE,
                !.mem = Store(printed, WriterOff(sb),
                              Zeros(sb.writer_len_remaining))]
       ELSE [sb EXCEPT
                !.dirty = TRUE,
                !.mem = printed,
                !.writer_len_remaining = sb.writer_len_remaining - (snp_rv + 1),
                !.writer_ptr = sb.writer_ptr + snp_rv + 1]

\* variant: the truncated text is left in place, not zeroed
sb_append_line_or_zeroes_nomemset(sb, line) ==
    LET snp_rv == snprintf_rv(line)
        printed == Store(sb.mem, WriterOff(sb),
                         snprintf_written(sb.writer_len_remaining, line))
    IN IF append_truncated(sb, line)
       THEN [sb EXCEPT !.dirty = TRUE, !.mem = printed]
       ELSE [sb EXCEPT
                !.dirty = TRUE,
                !.mem = printed,
                !.writer_len_remaining = sb.writer_len_remaining - snp_rv,
                !.writer_ptr = sb.writer_ptr + snp_rv]

\* variant: dirty is left as it was
sb_append_line_or_zeroes_nodirty(sb, line) ==
    LET snp_rv == snprintf_rv(line)
        printed == Store(sb.mem, WriterOff(sb),
                         snprintf_written(sb.writer_len_remaining, line))
    IN IF append_truncated(sb, line)
       THEN [sb EXCEPT
                !.mem = Store(printed, WriterOff(sb),
                              Zeros(sb.writer_len_remaining))]
       ELSE [sb EXCEPT
                !.mem = printed,
                !.writer_len_remaining = sb.writer_len_remaining - snp_rv,
                !.writer_ptr = sb.writer_ptr + snp_rv]

\* sb_append_line_or_zeroes: the buffer afterwards
sb_append_line_or_zeroes(sb, line) ==
    LET snp_rv == snprintf_rv(line)
        printed == Store(sb.mem, WriterOff(sb),
                         snprintf_written(sb.writer_len_remaining, line))
    IN IF append_truncated(sb, line)
       THEN [sb EXCEPT
                !.dirty = TRUE,
                !.mem = Store(printed, WriterOff(sb),
                              Zeros(sb.writer_len_remaining))]
       ELSE [sb EXCEPT
                !.dirty = TRUE,
                !.mem = printed,
                !.writer_len_remaining = sb.writer_len_remaining - snp_rv,
                !.writer_ptr = sb.writer_ptr + snp_rv]

\* variant: the two return values the other way round
sb_append_rv_swapped(sb, line) ==
    IF snprintf_rv(line) >= sb.writer_len_remaining THEN 0 ELSE 1

\* sb_append_line_or_zeroes: its return value
sb_append_rv(sb, line) ==
    IF append_truncated(sb, line) THEN 1 ELSE 0

----------------------------------------------------------------------------
(* struct sdict, the skip-list part.  sl_sbuflist is the address of the    *)
(* array of struct sharkybuf kept in the region of sl_sbuflist_sbuf; slots *)
(* is that array as it stands in memory (slots[k+1] is sl_sbuflist[k]),    *)
(* the entries written beyond the end of the region included.              *)

sd_cleared ==
    [sl_sbuflist_sbuf |-> sb_unallocated,
     sl_sbuflist_entry_ct |-> 0,
     sl_sbuflist |-> 0,
     slots |-> <<>>,
     sl_headnode |-> 0,
     sl_sentinel |-> 0]

\* nodes: the nodes handed out so far, [addr, seg, off, size, linkptr_ct,
\* dataptr_ct]; naddr: regions allocated so far; calls: sdict_sl_allocnode
\* calls of the harness so far; freed: the addresses sdict_sl_destruct
\* passed to free(), in order
NoArenaOp == [op |-> "none", pre |-> sd_cleared, nodes |-> <<>>, naddr |-> 0,
              calls |-> 0, oob |-> FALSE, freed |-> <<>>]

----------------------------------------------------------------------------
(* Buffer harness: one struct sharkybuf driven through the sb_* functions  *)
(* in any order a caller can use them.  hop records the last call: its     *)
(* name, the buffer before it (pre), the line passed and the result.       *)

\* addresses mmap/malloc/realloc may return
Addrs == {64, 128}
\* addresses posix_memalign may return in catlines
ConsAddrs == {192}

Str_abc == <<CharA, CharA + 1, CharA + 2>>
Str_defg == <<CharA + 3, CharA + 4, CharA + 5, CharA + 6>>

\* lines the harness appends
HLines == {<<>>, Str_abc, Str_defg}

\* the lengths mmap and posix_memalign buffers may have
HarnessLens == {n \in 1..HarnessMaxLen : n % page_size = 0}

\* log: the lines appended since the buffer was created or wiped, each with
\* its result; grown: sb_realloc was called since then.  The record of an
\* abort also has call, the function that aborted, and last, the operation
\* before it
NoOp == [op |-> "none", pre |-> sb_unallocated, line |-> <<>>, rv |-> 0,
         log |-> <<>>, grown |-> FALSE]

\* the variables of the two processes, idle
IdlePipe == [data |-> <<>>, wr |-> {}, rd |-> {}]
IdleProc == [pc |-> "idle"]
IdleInp == [max_ed |-> 0, name |-> <<>>, dict |-> FALSE, zc |-> CharZ]
\* gen: the candidates appended; flushes: the calls of sb_sendbuf_vmsplice;
\* sent: every byte the pipe accepted from vmsplice, in order; refs: where
\* they were gifted from, as runs [rid, from, to] of consecutive offsets
\* from..to of the mapping rid, in order
IdleHist == [gen |-> <<>>, flushes |-> <<>>, sent |-> <<>>, refs |-> <<>>]

InitBuf ==
    /\ scen = "buf"
    /\ page_size = HarnessPage
    /\ hb = sb_unallocated
    /\ hop = NoOp
    /\ sd = sd_cleared
    /\ aop = NoArenaOp
    /\ inp = IdleInp
    /\ prod = IdleProc
    /\ cons = IdleProc
    /\ pipe = IdlePipe
    /\ out = <<>>
    /\ hist = IdleHist

HFrame == UNCHANGED <<page_size, inp, prod, cons, pipe, out, hist, sd, aop, scen>>

\* the harness process has neither aborted nor exited
HarnessRunning == hop.op \notin {"abort", "exit"}

\* mmap, posix_memalign, malloc or realloc failed: perror and exit(4)
AllocFailed == [op |-> "exit", pre |-> hb, line |-> <<>>, rv |-> 4,
                log |-> hop.log, grown |-> hop.grown]

H_CreateMmap ==
    /\ scen = "buf" /\ HarnessRunning
    /\ hb.strategy = SHARKYBUF_STRATEGY_UNALLOCATED
    /\ \E len \in HarnessLens, a \in Addrs \cup {0} :
        /\ sb_create_mmap_pre(len)
        /\ IF a = 0
           THEN hb' = hb /\ hop' = AllocFailed
           ELSE /\ hb' = sb_create_mmap(a, len)
                /\ hop' = [op |-> "create_mmap", pre |-> hb, line |-> <<>>,
                           rv |-> len, log |-> <<>>, grown |-> FALSE]
    /\ HFrame

H_CreatePosixMemalign ==
    /\ scen = "buf" /\ HarnessRunning
    /\ hb.strategy = SHARKYBUF_STRATEGY_UNALLOCATED
    /\ \E len \in HarnessLens, a \in Addrs \cup {0} :
        /\ sb_create_posix_memalign_pre(len)
        /\ IF a = 0
           THEN hb' = hb /\ hop' = AllocFailed
           ELSE /\ hb' = sb_create_posix_memalign(a, len)
                /\ hop' = [op |-> "create_posix_memalign", pre |-> hb,
                           line |-> <<>>, rv |-> len, log |-> <<>>,
                           grown |-> FALSE]
    /\ HFrame

H_CreateMalloc ==
    /\ scen = "buf" /\ HarnessRunning
    /\ hb.strategy = SHARKYBUF_STRATEGY_UNALLOCATED
    /\ \E len \in 1..HarnessMaxLen, a \in Addrs \cup {0} :
        /\ sb_create_malloc_pre(len)
        /\ IF a = 0
           THEN hb' = hb /\ hop' = AllocFailed
           ELSE /\ hb' = sb_create_malloc(a, len)
                /\ hop' = [op |-> "create_malloc", pre |-> hb, line |-> <<>>,
                           rv |-> len, log |-> <<>>, grown |-> FALSE]
    /\ HFrame

H_Realloc ==
    /\ scen = "buf" /\ HarnessRunning
    /\ hb.strategy # SHARKYBUF_STRATEGY_UNALLOCATED
    /\ \E d \in 0..HarnessMaxGrow, a \in Addrs \cup {0} :
        LET new_len == hb.len + d IN
        /\ new_len <= HarnessMaxLen
        /\ IF sb_realloc_pre(hb, new_len)
           THEN IF a = 0
                THEN hb' = hb /\ hop' = AllocFailed
                ELSE /\ hb' = sb_realloc(hb, new_len, a)
                     /\ hop' = [op |-> "realloc", pre |-> hb, line |-> <<>>,
                                rv |-> new_len, log |-> hop.log, grown |-> TRUE]
           ELSE \* a failing assert: the process aborts
                /\ hb' = hb
                /\ hop' = [op |-> "abort", pre |-> hb, line |-> <<>>,
                           rv |-> new_len, log |-> hop.log, grown |-> TRUE,
                           call |-> "realloc", last |-> hop.op]
    /\ HFrame

H_Append ==
    /\ scen = "buf" /\ HarnessRunning
    /\ hb.strategy # SHARKYBUF_STRATEGY_UNALLOCATED
    /\ Len(hop.log) < HarnessMaxAppends
    /\ \E line \in HLines :
        /\ sb_append_pre(hb)
        /\ hb' = sb_append_line_or_zeroes(hb, line)
        /\ hop' = [op |-> "append", pre |-> hb, line |-> line,
                   rv |-> sb_append_rv(hb, line),
                   grown |-> hop.grown,
                   log |-> Append(hop.log, [line |-> line,
                                            rv |-> sb_append_rv(hb, line)])]
    /\ HFrame

H_Wipe ==
    /\ scen = "buf" /\ HarnessRunning
    /\ hb.strategy # SHARKYBUF_STRATEGY_UNALLOCATED
    /\ sb_wipe_pre(hb)
    /\ hb' = sb_wipe(hb)
    /\ hop' = [op |-> "wipe", pre |-> hb, line |-> <<>>, rv |-> 0, log |-> <<>>,
                grown |-> FALSE]
    /\ HFrame

H_Dispose ==
    /\ scen = "buf" /\ HarnessRunning
    /\ IF sb_dispose_aborts(hb)
       THEN /\ hb' = hb
            /\ hop' = [op |-> "abort", pre |-> hb, line |-> <<>>, rv |-> 0,
                       log |-> hop.log, grown |-> hop.grown,
                       call |-> "dispose", last |-> hop.op]
       ELSE /\ hb' = sb_dispose(hb)
            /\ hop' = [op |-> "dispose", pre |-> hb, line |-> <<>>, rv |-> 0,
                       log |-> <<>>, grown |-> FALSE]
    /\ HFrame

NextBuf ==
    \/ H_CreateMmap
    \/ H_CreatePosixMemalign
    \/ H_CreateMalloc
    \/ H_Realloc
    \/ H_Append
    \/ H_Wipe
    \/ H_Dispose

SpecBuf == InitBuf /\ [][NextBuf]_vars

----------------------------------------------------------------------------
(* hamming(): the enumeration of candidates.  The loops of the function    *)
(* are cut at the point where a candidate is emitted; the state between    *)
(* two emissions is ed, editcols[0..ed-1] and c[0..ed-1], kept here as     *)
(* sequences (editcols[j+1] is the C editcols[j]; columns stay 0-based).   *)

\* strncpy(name_temp, name, MAX_NAME_LEN): name padded with '\0'
strncpy_name(name) ==
    [i \in 1..MAX_NAME_LEN |-> IF i <= Len(name) THEN name[i] ELSE NUL]

\* "Perform edits": name_temp[editcols[edit]] = c[edit] for edit = 0..ed-1
RECURSIVE ApplyEdits(_, _, _, _)
ApplyEdits(name_temp, editcols, c, edit) ==
    IF edit > Len(editcols) THEN name_temp
    ELSE ApplyEdits([name_temp EXCEPT ![editcols[edit] + 1] = c[edit]],
                    editcols, c, edit + 1)

\* the candidate printed by "%s" for the current columns and characters
Candidate(name, editcols, c) ==
    CStr(ApplyEdits(strncpy_name(name), editcols, c, 1))

\* "Initialise state for editcols": editcols[j] = j
InitCols(ed) == [j \in 1..ed |-> j - 1]

\* "Initialise state for edits": c[j] = 'a'
InitChars(ed) == [j \in 1..ed |-> CharA]

\* "Select next set of chars": the odometer over c, from the last column.
\* j is the C index; the result has j < 0 when the values ran out.
RECURSIVE NextChars(_, _, _)
NextChars(c, j, zc) ==
    IF j < 0 THEN [c |-> c, j |-> j]
    ELSE IF c[j + 1] < zc
         THEN [c |-> [c EXCEPT ![j + 1] = c[j + 1] + 1], j |-> j]
         ELSE NextChars([c EXCEPT ![j + 1] = CharA], j - 1, zc)

\* "Set following columns incrementally"
RECURSIVE FollowCols(_, _, _)
FollowCols(editcols, i, ed) ==
    IF i >= ed THEN editcols
    ELSE FollowCols([editcols EXCEPT ![i + 1] = editcols[i] + 1], i + 1, ed)

\* "Choose columns" entered with i >= 0: the next set of columns, or
\* i < 0 when every column is at its maximum.
RECURSIVE NextCols(_, _, _, _)
NextCols(editcols, i, ed, name_len) ==
    IF i < 0 THEN [editcols |-> editcols, i |-> i]
    ELSE IF editcols[i + 1] < name_len - (ed - i)
         THEN [editcols |-> FollowCols([editcols EXCEPT ![i + 1] = editcols[i + 1] + 1],
                                       i + 1, ed),
               i |-> i]
         ELSE NextCols(editcols, i - 1, ed, name_len)

\* the enumeration state at the first emission of round ed, or done
EnumRound(ed, max_ed) ==
    IF ed <= max_ed
    THEN [done |-> FALSE, ed |-> ed, editcols |-> InitCols(ed), c |-> InitChars(ed)]
    ELSE [done |-> TRUE, ed |-> ed, editcols |-> <<>>, c |-> <<>>]

\* for (ed = 1; ed <= max_ed; ...) up to the first emission
EnumStart(max_ed) == EnumRound(1, max_ed)

\* from one emission to the next one (or to the end of the for loop)
EnumNext(e, name_len, max_ed, zc) ==
    LET nc == NextChars(e.c, e.ed - 1, zc) IN
    IF nc.j >= 0
    THEN [e EXCEPT !.c = nc.c]
    ELSE LET ncol == NextCols(e.editcols, e.ed - 1, e.ed, name_len) IN
         IF ncol.i >= 0
         THEN [e EXCEPT !.editcols = ncol.editcols, !.c = InitChars(e.ed)]
         ELSE EnumRound(e.ed + 1, max_ed)

----------------------------------------------------------------------------
(* The two processes after fork() in main(): the parent runs hamming(),    *)
(* the child runs catlines().  An action is one system call together with  *)
(* the local computation that follows it up to the next system call.       *)

\* errno values a failing call may leave; "none" stands for a call that
\* succeeded.  The field err of a process is the outcome of its last call.
Errnos == {"EINTR", "EAGAIN", "EIO"}

\* variant: EINTR is retried like EAGAIN

\* sb_sendbuf_vmsplice, switch (errno): the cases that "Try again"
vmsplice_retries(errno) == errno = "EAGAIN"

\* variant: every error is retried
read_retries_all(errno) == TRUE

\* sb_recvbuf_read, switch (errno): the cases that "Try again"
read_retries(errno) == errno \in {"EINTR", "EAGAIN"}

\* sb_buf_to_stdout, switch (errno): the cases that "Try again"
write_retries(errno) == errno \in {"EINTR", "EAGAIN"}

\* variant: the bytes are stored at the start of the region
sb_recvbuf_read_got_at_start(sb, data) ==
    [sb EXCEPT
        !.dirty = TRUE,
        !.mem = Store(sb.mem, 0, data),
        !.writer_ptr = sb.writer_ptr + Len(data),
        !.writer_len_remaining = sb.writer_len_remaining - Len(data)]

\* sb_recvbuf_read, the else branch: read() returned the bytes data (none at EOF)
sb_recvbuf_read_got(sb, data) ==
    [sb EXCEPT
        !.dirty = TRUE,
        !.mem = Store(sb.mem, WriterOff(sb), data),
        !.writer_ptr = sb.writer_ptr + Len(data),
        !.writer_len_remaining = sb.writer_len_remaining - Len(data)]

\* variant: the trimming loop left out
TrimLen_untrimmed(mem, n) == n

\* variant: the text ends at its first '\0'
TrimLen_first_nul(mem, n) ==
    IF \E i \in 1..n : mem[i] = NUL
    THEN (CHOOSE i \in 1..n :
            mem[i] = NUL /\ \A k \in 1..(i - 1) : mem[k] # NUL) - 1
    ELSE n

\* sb_buf_to_stdout, "Adjust reader_len_remaining": len without trailing '\0's
RECURSIVE TrimLen(_, _)
TrimLen(mem, n) ==
    IF n >= 1 /\ mem[n] = NUL THEN TrimLen(mem, n - 1) ELSE n

\* the text the lines of gen make: every candidate followed by '\n'
RECURSIVE LinesOf(_)
LinesOf(gen) ==
    IF gen = <<>> THEN <<>>
    ELSE Head(gen) \o <<LF>> \o LinesOf(Tail(gen))

ProdInit ==
    [pc |-> "close_rd", status |-> -1, sbuf |-> sb_unallocated,
     e |-> EnumRound(1, 0), reader_len_remaining |-> 0, iov_off |-> 0,
     after |-> "none", region |-> 0, freed |-> <<>>, err |-> "none"]

\* fills, drains, wipes: the calls of sb_recvbuf_read, sb_buf_to_stdout and
\* sb_wipe that catlines has completed (drains: has entered)
ConsInit ==
    [pc |-> "close_wr", status |-> -1, sbuf |-> sb_unallocated,
     read_rv |-> 0, reader_off |-> 0, reader_len_remaining |-> 0,
     err |-> "none", fills |-> 0, drains |-> 0, wipes |-> 0,
     region |-> 0, freed |-> <<>>]

PFrame == UNCHANGED <<page_size, inp, hb, hop, sd, aop, scen>>

\* exit(): the process ends and the kernel closes its descriptors
Exit(proc, code) == [proc EXCEPT !.pc = "exited", !.status = code]
\* perror(...); exit(4) after a call failed with errno
Fail(proc, errno) == [proc EXCEPT !.pc = "exited", !.status = 4, !.err = errno]
CloseAll(who) == [pipe EXCEPT !.wr = @ \ {who}, !.rd = @ \ {who}]

(* ---- parent ---- *)

\* main: "Parent closes output end of pipe"
P_CloseRead ==
    /\ scen = "pipe" /\ prod.pc = "close_rd"
    /\ pipe' = [pipe EXCEPT !.rd = @ \ {"prod"}]
    /\ prod' = [prod EXCEPT !.pc = "hamming"]
    /\ UNCHANGED <<cons, out, hist>> /\ PFrame

\* hamming: pre-flight checks, sb_create_mmap, up to the first candidate
P_HammingInit ==
    /\ scen = "pipe" /\ prod.pc = "hamming"
    /\ \E a \in Addrs \cup {0} :
        IF ~(Len(inp.name) <= MAX_NAME_LEN - 1 /\ inp.max_ed <= MAX_ED_LIMIT
             /\ sb_create_mmap_pre(page_size))
        THEN /\ a = 0
             /\ prod' = Exit(prod, 134)
             /\ pipe' = CloseAll("prod")
        ELSE IF a = 0
        THEN \* mmap returned MAP_FAILED
             /\ prod' = Fail(prod, "ENOMEM")
             /\ pipe' = CloseAll("prod")
        ELSE LET e0 == EnumStart(inp.max_ed) IN
             /\ prod' = [prod EXCEPT
                    !.sbuf = sb_create_mmap(a, page_size),
                    !.region = prod.region + 1,
                    !.e = e0,
                    !.pc = IF e0.done THEN "final" ELSE "append"]
             /\ pipe' = pipe
    /\ UNCHANGED <<cons, out, hist>> /\ PFrame

\* sb_sendbuf_vmsplice, "Setup"
SendSetup(p, after) ==
    [p EXCEPT !.pc = "send", !.after = after,
              !.reader_len_remaining = p.sbuf.len, !.iov_off = 0]

\* hamming: sb_append_line_or_zeroes(&sbuf, name_temp) and what follows it
P_Append ==
    /\ scen = "pipe" /\ prod.pc = "append"
    /\ LET line == Candidate(inp.name, prod.e.editcols, prod.e.c)
           rv == sb_append_rv(prod.sbuf, line)
           sb1 == sb_append_line_or_zeroes(prod.sbuf, line)
       IN IF rv # 0
          THEN /\ prod' = SendSetup([prod EXCEPT !.sbuf = sb1], "append")
               /\ hist' = [hist EXCEPT !.flushes = Append(@,
                              [why |-> "nospace", line |-> line,
                               n |-> Len(hist.gen),
                               rem |-> prod.sbuf.writer_len_remaining,
                               mem |-> sb1.mem])]
          ELSE LET e1 == EnumNext(prod.e, Len(inp.name), inp.max_ed, inp.zc) IN
               /\ prod' = [prod EXCEPT !.sbuf = sb1, !.e = e1,
                              !.pc = IF e1.done THEN "final" ELSE "append"]
               /\ hist' = [hist EXCEPT !.gen = Append(@, line)]
    /\ UNCHANGED <<cons, pipe, out>> /\ PFrame

\* hamming: "Write partially-full page to pipe before freeing it"
P_Final ==
    /\ scen = "pipe" /\ prod.pc = "final"
    /\ IF prod.sbuf.dirty
       THEN /\ prod' = SendSetup(prod, "dispose")
            /\ hist' = [hist EXCEPT !.flushes = Append(@,
                           [why |-> "final", line |-> <<>>,
                            n |-> Len(hist.gen),
                            rem |-> prod.sbuf.writer_len_remaining,
                            mem |-> prod.sbuf.mem])]
       ELSE /\ prod' = [prod EXCEPT !.pc = "dispose"]
            /\ hist' = hist
    /\ UNCHANGED <<cons, pipe, out>> /\ PFrame

\* variant: iov_base not advanced after a partial transfer
IovBytes_rewound(p, k) == Slice(p.sbuf.mem, 1, k)

\* the first k bytes of iov: iov_base is addr plus what earlier calls moved
IovBytes(p, k) == Slice(p.sbuf.mem, p.iov_off + 1, p.iov_off + k)

\* variant: the region is wiped and kept instead of being replaced
SendDone_wiped(p, a) ==
    [p EXCEPT !.sbuf = sb_wipe(p.sbuf), !.pc = p.after]

\* variant: the writer head of the old buffer is kept for the new one
SendDone_stale_head(p, a) ==
    [p EXCEPT !.sbuf = [sb_create_mmap(a, p.sbuf.len) EXCEPT
                           !.writer_ptr = a + WriterOff(p.sbuf),
                           !.writer_len_remaining = p.sbuf.writer_len_remaining],
              !.freed = Append(p.freed, p.region),
              !.region = p.region + 1,
              !.pc = p.after]

\* variant: the mapping that was passed on is not unmapped
SendDone_no_munmap(p, a) ==
    [p EXCEPT !.sbuf = sb_create_mmap(a, p.sbuf.len),
              !.region = p.region + 1,
              !.pc = p.after]

\* sb_sendbuf_vmsplice, "Dispose and replace": munmap, then mmap returned a
SendDone(p, a) ==
    [p EXCEPT !.sbuf = sb_create_mmap(a, p.sbuf.len),
              !.freed = Append(p.freed, p.region),
              !.region = p.region + 1,
              !.pc = p.after]

\* refs with the k bytes vmsplice takes from iov: they extend the last run
\* when they follow it in the same mapping, and start a new run otherwise
IovRefs(refs, p, k) ==
    LET n == Len(refs) IN
    IF n > 0 /\ refs[n].rid = p.region /\ refs[n].to + 1 = p.iov_off
    THEN [refs EXCEPT ![n].to = p.iov_off + k - 1]
    ELSE Append(refs, [rid |-> p.region, from |-> p.iov_off,
                       to |-> p.iov_off + k - 1])

\* sb_sendbuf_vmsplice: one vmsplice() that moved k bytes into the pipe; when
\* nothing remains, "Dispose and replace" and return to the caller (or mmap
\* fails there: exit(4))
P_Vmsplice ==
    /\ scen = "pipe" /\ prod.pc = "send"
    /\ pipe.rd # {}
    /\ \E k \in 1..Min(prod.reader_len_remaining, PipeCap - Len(pipe.data)),
          a \in Addrs \cup {0} :
        LET rem == prod.reader_len_remaining - k
            gift == IovBytes(prod, k)
            p1 == [prod EXCEPT !.reader_len_remaining = rem,
                               !.iov_off = prod.iov_off + k,
                               !.err = "none"]
        IN /\ hist' = [hist EXCEPT !.sent = @ \o gift,
                                   !.refs = IovRefs(@, prod, k)]
           /\ IF rem > 0
              THEN /\ a = prod.sbuf.addr
                   /\ prod' = p1
                   /\ pipe' = [pipe EXCEPT !.data = @ \o gift]
              ELSE IF a = 0
              THEN \* the old mapping is gone, mmap returned MAP_FAILED
                   /\ prod' = Fail([p1 EXCEPT !.freed = Append(@, p1.region)],
                                   "ENOMEM")
                   /\ pipe' = [CloseAll("prod") EXCEPT !.data = @ \o gift]
              ELSE /\ prod' = SendDone(p1, a)
                   /\ pipe' = [pipe EXCEPT !.data = @ \o gift]
    /\ UNCHANGED <<cons, out>> /\ PFrame

\* sb_sendbuf_vmsplice: vmsplice() failed with an errno that is tried again
P_VmspliceAgain ==
    /\ scen = "pipe" /\ prod.pc = "send"
    /\ pipe.rd # {}
    /\ \E errno \in Errnos :
        /\ vmsplice_retries(errno)
        /\ prod' = [prod EXCEPT !.err = errno]
    /\ UNCHANGED <<cons, pipe, out, hist>> /\ PFrame

\* sb_sendbuf_vmsplice: vmsplice() failed with the errno given: exit(4)
VmspliceErr(errno) ==
    /\ scen = "pipe" /\ prod.pc = "send"
    /\ pipe.rd # {}
    /\ ~vmsplice_retries(errno)
    /\ prod' = Fail(prod, errno)
    /\ pipe' = CloseAll("prod")
    /\ UNCHANGED <<cons, out, hist>> /\ PFrame

\* sb_sendbuf_vmsplice: vmsplice() failed otherwise (default case): exit(4)
P_VmspliceFail == \E errno \in Errnos : VmspliceErr(errno)

\* vmsplice() into a pipe that has no reader left: SIGPIPE ends the process
P_VmspliceSigpipe ==
    /\ scen = "pipe" /\ prod.pc = "send"
    /\ pipe.rd = {}
    \* killed by the signal: no errno is handled
    /\ prod' = [Exit(prod, 141) EXCEPT !.err = "none"]
    /\ pipe' = CloseAll("prod")
    /\ UNCHANGED <<cons, out, hist>> /\ PFrame

\* hamming: "Clean up"
P_Dispose ==
    /\ scen = "pipe" /\ prod.pc = "dispose"
    /\ IF sb_dispose_aborts(prod.sbuf)
       THEN /\ prod' = Exit(prod, 134)
            /\ pipe' = CloseAll("prod")
       ELSE /\ prod' = [prod EXCEPT !.sbuf = sb_dispose(prod.sbuf),
                                    !.freed = Append(@, prod.region),
                                    !.pc = "close_wr"]
            /\ pipe' = pipe
    /\ UNCHANGED <<cons, out, hist>> /\ PFrame

\* main: close(fd[1])
P_CloseWrite ==
    /\ scen = "pipe" /\ prod.pc = "close_wr"
    /\ pipe' = [pipe EXCEPT !.wr = @ \ {"prod"}]
    /\ prod' = [prod EXCEPT !.pc = "wait"]
    /\ UNCHANGED <<cons, out, hist>> /\ PFrame

\* variant: the status of the child is not looked at
P_Wait_status_ignored ==
    /\ scen = "pipe" /\ prod.pc = "wait"
    /\ cons.pc = "exited"
    /\ prod' = Exit(prod, 0)
    /\ pipe' = CloseAll("prod")
    /\ UNCHANGED <<cons, out, hist>> /\ PFrame

\* main: waitpid() returned, exit(5) or exit(0)
P_Wait ==
    /\ scen = "pipe" /\ prod.pc = "wait"
    /\ cons.pc = "exited"
    /\ prod' = Exit(prod, IF cons.status # 0 THEN 5 ELSE 0)
    /\ pipe' = CloseAll("prod")
    /\ UNCHANGED <<cons, out, hist>> /\ PFrame

(* ---- child ---- *)

\* variant: the child keeps fd[1] open
C_CloseWrite_kept ==
    /\ scen = "pipe" /\ cons.pc = "close_wr"
    /\ pipe' = pipe
    /\ cons' = [cons EXCEPT !.pc = "catlines"]
    /\ UNCHANGED <<prod, out, hist>> /\ PFrame

\* main: "Child closes input end of pipe", then "if (dictpath)"
C_CloseWrite ==
    /\ scen = "pipe" /\ cons.pc = "close_wr"
    /\ pipe' = [pipe EXCEPT !.wr = @ \ {"cons"}]
    /\ cons' = [cons EXCEPT !.pc = IF inp.dict THEN "sdict_open" ELSE "catlines"]
    /\ UNCHANGED <<prod, out, hist>> /\ PFrame

\* catlines: sb_create_posix_memalign(&sbuf, page_size)
C_Create ==
    /\ scen = "pipe" /\ cons.pc = "catlines"
    /\ \E a \in ConsAddrs \cup {0} :
        IF ~sb_create_posix_memalign_pre(page_size)
        THEN /\ a = 0
             /\ cons' = Exit(cons, 134)
             /\ pipe' = CloseAll("cons")
        ELSE IF a = 0
        THEN \* posix_memalign returned an error
             /\ cons' = Fail(cons, "ENOMEM")
             /\ pipe' = CloseAll("cons")
        ELSE /\ cons' = [cons EXCEPT !.sbuf = sb_create_posix_memalign(a, page_size),
                                     !.region = cons.region + 1,
                                     !.pc = "read"]
             /\ pipe' = pipe
    /\ UNCHANGED <<prod, out, hist>> /\ PFrame

\* sb_buf_to_stdout, "Setup" and the trimming loop; with nothing to write
\* the function returns at once
StdoutSetup(c) ==
    LET n == TrimLen(c.sbuf.mem, c.sbuf.len) IN
    [c EXCEPT !.reader_off = 0, !.reader_len_remaining = n,
              !.drains = c.drains + 1,
              !.pc = IF n > 0 THEN "write" ELSE "wipe"]

\* variant: a full buffer is reported as end of file
ReadGot_eof_on_full(data) ==
    LET sb1 == sb_recvbuf_read_got(cons.sbuf, data)
        c1 == [cons EXCEPT !.sbuf = sb1, !.err = "none"]
    IN IF Len(data) = 0 \/ ~(sb1.writer_len_remaining > 0)
       THEN StdoutSetup([c1 EXCEPT !.read_rv = 1, !.fills = cons.fills + 1])
       ELSE c1

\* what the loop does with a filled buffer: catlines calls sb_buf_to_stdout,
\* checkwords goes straight to sb_wipe
LoopAfterRead(c) ==
    IF inp.dict THEN [c EXCEPT !.pc = "wipe"] ELSE StdoutSetup(c)

\* sb_recvbuf_read: one read() that returned data (empty at end of file);
\* when the function returns, the loop of catlines or checkwords goes on
ReadGot(data) ==
    LET sb1 == sb_recvbuf_read_got(cons.sbuf, data)
        c1 == [cons EXCEPT !.sbuf = sb1, !.err = "none"]
    IN IF Len(data) = 0
       THEN LoopAfterRead([c1 EXCEPT !.read_rv = 1, !.fills = cons.fills + 1])
       ELSE IF ~(sb1.writer_len_remaining > 0)
            THEN LoopAfterRead([c1 EXCEPT !.read_rv = 0, !.fills = cons.fills + 1])
            ELSE c1

C_Read ==
    /\ scen = "pipe" /\ cons.pc = "read"
    /\ Len(pipe.data) > 0
    /\ \E k \in 1..Min(cons.sbuf.writer_len_remaining, Len(pipe.data)) :
        /\ cons' = ReadGot(Slice(pipe.data, 1, k))
        /\ pipe' = [pipe EXCEPT !.data = Slice(@, k + 1, Len(@))]
    /\ UNCHANGED <<prod, out, hist>> /\ PFrame

\* read() returned 0: the pipe is empty and no write end is open
C_ReadEof ==
    /\ scen = "pipe" /\ cons.pc = "read"
    /\ Len(pipe.data) = 0 /\ pipe.wr = {}
    /\ cons' = ReadGot(<<>>)
    /\ UNCHANGED <<prod, pipe, out, hist>> /\ PFrame

\* read() failed with EINTR or EAGAIN: "Try again"
C_ReadAgain ==
    /\ scen = "pipe" /\ cons.pc = "read"
    /\ \E errno \in Errnos :
        /\ read_retries(errno)
        /\ cons' = [cons EXCEPT !.err = errno]
    /\ UNCHANGED <<prod, pipe, out, hist>> /\ PFrame

\* read() failed otherwise: exit(4)
C_ReadFail ==
    /\ scen = "pipe" /\ cons.pc = "read"
    /\ \E errno \in Errnos :
        /\ ~read_retries(errno)
        /\ cons' = Fail(cons, errno)
    /\ pipe' = CloseAll("cons")
    /\ UNCHANGED <<prod, out, hist>> /\ PFrame

\* sb_buf_to_stdout: one write() that took k bytes
C_Write ==
    /\ scen = "pipe" /\ cons.pc = "write"
    /\ \E k \in 1..cons.reader_len_remaining :
        /\ out' = out \o Slice(cons.sbuf.mem, cons.reader_off + 1, cons.reader_off + k)
        /\ cons' = [cons EXCEPT
               !.err = "none",
               !.reader_off = cons.reader_off + k,
               !.reader_len_remaining = cons.reader_len_remaining - k,
               !.pc = IF cons.reader_len_remaining - k > 0 THEN "write" ELSE "wipe"]
    /\ UNCHANGED <<prod, pipe, hist>> /\ PFrame

\* write() failed with EINTR or EAGAIN: "Try again"
C_WriteAgain ==
    /\ scen = "pipe" /\ cons.pc = "write"
    /\ \E errno \in Errnos :
        /\ write_retries(errno)
        /\ cons' = [cons EXCEPT !.err = errno]
    /\ UNCHANGED <<prod, pipe, out, hist>> /\ PFrame

\* write() failed otherwise: exit(4)
C_WriteFail ==
    /\ scen = "pipe" /\ cons.pc = "write"
    /\ \E errno \in Errnos :
        /\ ~write_retries(errno)
        /\ cons' = Fail(cons, errno)
    /\ pipe' = CloseAll("cons")
    /\ UNCHANGED <<prod, out, hist>> /\ PFrame

\* catlines, checkwords: sb_wipe(&sbuf); "Did we reach EOF?"; checkwords
\* goes on to sdict_close before it disposes of the buffer
C_Wipe ==
    /\ scen = "pipe" /\ cons.pc = "wipe"
    /\ cons' = [cons EXCEPT !.sbuf = sb_wipe(cons.sbuf),
                            !.wipes = cons.wipes + 1,
                            !.pc = IF cons.read_rv # 1 THEN "read"
                                   ELSE IF inp.dict THEN "sdict_close"
                                   ELSE "dispose"]
    /\ UNCHANGED <<prod, pipe, out, hist>> /\ PFrame

\* catlines: "Clean up"
C_Dispose ==
    /\ scen = "pipe" /\ cons.pc = "dispose"
    /\ IF sb_dispose_aborts(cons.sbuf)
       THEN /\ cons' = Exit(cons, 134)
            /\ pipe' = CloseAll("cons")
       ELSE /\ cons' = [cons EXCEPT !.sbuf = sb_dispose(cons.sbuf),
                                    !.freed = Append(@, cons.region),
                                    !.pc = "close_rd"]
            /\ pipe' = pipe
    /\ UNCHANGED <<prod, out, hist>> /\ PFrame

\* main: close(fd[0]); exit(0)
C_CloseExit ==
    /\ scen = "pipe" /\ cons.pc = "close_rd"
    /\ cons' = Exit(cons, 0)
    /\ pipe' = CloseAll("cons")
    /\ UNCHANGED <<prod, out, hist>> /\ PFrame

NextPipe ==
    \/ P_CloseRead
    \/ P_HammingInit
    \/ P_Append
    \/ P_Final
    \/ P_Vmsplice
    \/ P_VmspliceAgain
    \/ P_VmspliceFail
    \/ P_VmspliceSigpipe
    \/ P_Dispose
    \/ P_CloseWrite
    \/ P_Wait
    \/ C_CloseWrite
    \/ C_Create
    \/ C_Read
    \/ C_ReadEof
    \/ C_ReadAgain
    \/ C_ReadFail
    \/ C_Write
    \/ C_WriteAgain
    \/ C_WriteFail
    \/ C_Wipe
    \/ C_Dispose
    \/ C_CloseExit

\* names main may be given: the prefixes of "bob"
NameSource == <<CharA + 1, CharA + 14, CharA + 1>>
Names == {Slice(NameSource, 1, n) : n \in 0..Min(MaxNameLen, Len(NameSource))}

PipeStart(name, max_ed, zc, ps) ==
    /\ scen = "pipe"
    /\ page_size = ps
    /\ inp = [max_ed |-> max_ed, name |-> name, dict |-> FALSE, zc |-> zc]
    /\ prod = ProdInit
    /\ cons = ConsInit
    /\ pipe = [data |-> <<>>, wr |-> {"prod", "cons"}, rd |-> {"prod", "cons"}]
    /\ out = <<>>
    /\ hist = IdleHist
    /\ hb = sb_unallocated
    /\ hop = NoOp
    /\ sd = sd_cleared
    /\ aop = NoArenaOp

\* any name and edit distance within the bounds, a reduced alphabet
InitPipe ==
    \E name \in Names, max_ed \in 0..MaxEd :
        PipeStart(name, max_ed, CharA + AlphabetSize - 1, PipePage)

Spec == InitPipe /\ [][NextPipe]_vars

\* main "1 bob": the name "bob", edit distance 1, the letters a..z
Str_bob == <<CharA + 1, CharA + 14, CharA + 1>>

InitBob == PipeStart(Str_bob, 1, CharZ, BobPage)

SpecBob == InitBob /\ [][NextPipe]_vars

----------------------------------------------------------------------------
(* Properties *)

Range(f) == {f[i] : i \in DOMAIN f}

IsPrefix(a, b) == Len(a) <= Len(b) /\ a = Slice(b, 1, Len(a))

AllZero(bs) == \A i \in DOMAIN bs : bs[i] = NUL

\* the run ended normally: the parent saw the child exit with status 0
RunDone == scen = "pipe" /\ prod.pc = "exited" /\ prod.status = 0

\* text cut at every '\n': the lines, indexed by the place of their '\n'
LFs(bs) == {i \in DOMAIN bs : bs[i] = LF}
PrevLF(bs, i) ==
    LET before == {j \in LFs(bs) : j < i} IN
    IF before = {} THEN 0
    ELSE CHOOSE j \in before : \A k \in before : k <= j
LinesIn(bs) == [i \in LFs(bs) |-> Slice(bs, PrevLF(bs, i) + 1, i - 1)]
\* the text ends inside a line
Unterminated(bs) == bs # <<>> /\ bs[Len(bs)] # LF

CountIn(seq, x) == Cardinality({i \in DOMAIN seq : seq[i] = x})

\* the single-position substitutions of "bob": position pos gets letter ch
BobSubst == (1..Len(Str_bob)) \X (CharA..CharZ)
BobSubstOf(s) == [Str_bob EXCEPT ![s[1]] = s[2]]
BobExpected(x) == Cardinality({s \in BobSubst : BobSubstOf(s) = x})

\* out is, up to order, the enumeration of BobSubst: complete lines only,
\* no '\0', every string as often as the enumeration holds it
BobOutputIsEnumeration ==
    LET lines == LinesIn(out) IN
    /\ ~Unterminated(out)
    /\ \A i \in DOMAIN out : out[i] # NUL
    /\ Cardinality(DOMAIN lines) = Cardinality(BobSubst)
    /\ \A x \in Range(lines) \cup {BobSubstOf(s) : s \in BobSubst} :
           CountIn(lines, x) = BobExpected(x)

BobDistinct == Cardinality(Range(LinesIn(out)))

\* C1 as stated: for "bob" and edit distance 1 the output of catlines is,
\* sorted, the enumeration of the 3 * 26 single-position substitutions, and
\* these are 78 distinct strings.
C1_BobOutput78Distinct ==
    RunDone => /\ BobOutputIsEnumeration
               /\ BobDistinct = Cardinality(BobSubst)

\* C1 amended: the output is, sorted, the enumeration of the 3 * 26
\* single-position substitutions, 78 lines each ending in one '\n', without
\* '\0' and without a truncated line; "bob" itself occurs once per position,
\* so the lines hold 76 distinct strings.
C1_BobOutput ==
    RunDone => /\ BobOutputIsEnumeration
               /\ CountIn(LinesIn(out), Str_bob) = Len(Str_bob)
               /\ BobDistinct = Cardinality(BobSubst) - (Len(Str_bob) - 1)

C1_Witness ==
    /\ RunDone
    /\ Len(out) = Cardinality(BobSubst) * (Len(Str_bob) + 1)
    /\ Len(hist.flushes) > 1

\* every candidate of the enumeration, in the order hamming() emits them
RECURSIVE EnumAll(_, _, _, _)
EnumAll(e, name, max_ed, zc) ==
    IF e.done THEN <<>>
    ELSE <<Candidate(name, e.editcols, e.c)>>
         \o EnumAll(EnumNext(e, Len(name), max_ed, zc), name, max_ed, zc)

AllCandidates == EnumAll(EnumStart(inp.max_ed), inp.name, inp.max_ed, inp.zc)

\* the longest candidate with its '\n': a candidate has the length of name,
\* or ed when ed columns are more than name has
LongestLine ==
    IF inp.max_ed < 1 THEN 0
    ELSE 1 + (IF inp.max_ed > Len(inp.name) THEN inp.max_ed ELSE Len(inp.name))

C3_FlushOnlyWhenFullOrFinal ==
    (scen = "pipe" /\ prod.pc = "send") =>
        /\ prod.after \in {"append", "dispose"}
        /\ prod.after = "append" =>
              /\ ~prod.e.done
              /\ Len(Candidate(inp.name, prod.e.editcols, prod.e.c)) + 1
                     >= prod.sbuf.writer_len_remaining
              /\ hist.flushes[Len(hist.flushes)].why = "nospace"
              /\ hist.flushes[Len(hist.flushes)].line
                     = Candidate(inp.name, prod.e.editcols, prod.e.c)
              /\ Len(hist.flushes[Len(hist.flushes)].line) + 1
                     >= hist.flushes[Len(hist.flushes)].rem
        /\ prod.after = "dispose" =>
              /\ prod.e.done
              /\ hist.gen = AllCandidates
              /\ hist.flushes[Len(hist.flushes)].why = "final"
        /\ \A i \in 1..(Len(hist.flushes) - 1) : hist.flushes[i].why = "nospace"

C3_Witness ==
    /\ scen = "pipe" /\ prod.pc = "send" /\ prod.after = "dispose"
    /\ Len(hist.flushes) >= 2
    /\ hist.flushes[1].why = "nospace"

\* the last call of the harness was one of the three constructors
JustCreated ==
    scen = "buf" /\ hop.op \in {"create_mmap", "create_posix_memalign", "create_malloc"}

StrategyOf(op) ==
    IF op = "create_mmap" THEN SHARKYBUF_STRATEGY_MMAP
    ELSE IF op = "create_posix_memalign" THEN SHARKYBUF_STRATEGY_POSIX_MEMALIGN
    ELSE SHARKYBUF_STRATEGY_MALLOC

\* C5: right after a constructor made a buffer of length L (hop.rv): dirty is
\* false, the cursor is at offset 0, writer_len_remaining is L, the strategy
\* is the constructor's and every byte of the region is zero.
C5_FreshBuffer ==
    JustCreated =>
        /\ hb.dirty = FALSE
        /\ WriterOff(hb) = 0
        /\ hb.writer_len_remaining = hop.rv
        /\ hb.len = hop.rv
        /\ hb.strategy = StrategyOf(hop.op)
        /\ Len(hb.mem) = hop.rv
        /\ AllZero(hb.mem)

C5_Witness ==
    /\ JustCreated /\ hop.op = "create_malloc"
    /\ hb.len % page_size # 0
    /\ hop.pre = sb_unallocated

\* the last call of the harness was an append
JustAppended == scen = "buf" /\ hop.op = "append"

\* the bytes of the region from offset a (0-based) to its end
FromOff(sb, a) == Slice(sb.mem, a + 1, sb.len)
\* the bytes of the region before offset a
BeforeOff(sb, a) == Slice(sb.mem, 1, a)

\* C6: an append whose line with its '\n' has exactly writer_len_remaining
\* bytes reports insufficient space (1) and leaves every byte from the cursor
\* to the end of the region zero.
C6_ExactFitIsInsufficient ==
    (JustAppended /\ Len(hop.line) + 1 = hop.pre.writer_len_remaining) =>
        /\ hop.rv = 1
        /\ AllZero(FromOff(hb, WriterOff(hop.pre)))
        /\ WriterOff(hb) = WriterOff(hop.pre)

C6_Witness ==
    /\ JustAppended /\ Len(hop.line) + 1 = hop.pre.writer_len_remaining
    /\ hop.line = Str_defg
    /\ WriterOff(hop.pre) > 0
    /\ hop.rv = 1

\* "abc" and then "defg" were appended to a buffer that was fresh (created
\* or wiped, not grown since) and has room for both, the second one last
AbcDefgAppended ==
    /\ JustAppended
    /\ ~hop.grown
    /\ Len(hop.log) = 2
    /\ hop.log[1].line = Str_abc /\ hop.log[2].line = Str_defg
    /\ hb.len > Len(Str_abc) + 1 + Len(Str_defg) + 1

Text_abc_defg == Str_abc \o <<LF>> \o Str_defg \o <<LF>>

\* C7 as stated: after "abc" and "defg" the cursor is 8 bytes from the start
\* and writer_len_remaining is 8 less than before.
C7_AbcDefg8 ==
    AbcDefgAppended =>
        /\ WriterOff(hb) = 8
        /\ hb.writer_len_remaining = hb.len - 8

\* C7 amended: "abc" and then "defg" appended to a fresh buffer with room
\* for both, whatever its strategy: both appends succeed, the cursor stands
\* right after "abc\ndefg\n", which is 9 bytes from the start (4 for "abc\n"
\* and 5 for "defg\n"), and writer_len_remaining is 9 less than the length.
C7_AbcDefg ==
    AbcDefgAppended =>
        /\ hop.log[1].rv = 0 /\ hop.log[2].rv = 0
        /\ WriterOff(hb) = Len(Text_abc_defg)
        /\ Len(Text_abc_defg) = Len(Str_abc) + Len(Str_defg) + 2
        /\ hb.writer_len_remaining = hb.len - Len(Text_abc_defg)
        /\ BeforeOff(hb, Len(Text_abc_defg)) = Text_abc_defg
        /\ AllZero(FromOff(hb, Len(Text_abc_defg)))

C7_Witness ==
    /\ AbcDefgAppended
    /\ hb.strategy = SHARKYBUF_STRATEGY_MMAP
    /\ WriterOff(hb) = Len(Text_abc_defg)
    /\ hb.writer_len_remaining > 0

\* C8: an append of a line of n characters with n + 1 < writer_len_remaining
\* succeeds (0): the n characters and one '\n' stand at the prior cursor, the
\* cursor has advanced and writer_len_remaining has shrunk by n + 1, and the
\* bytes before the prior cursor, the strategy, address and length are
\* unchanged; and only such an append succeeds.
C8_AppendSuccess ==
    JustAppended =>
        LET n == Len(hop.line)
            off == WriterOff(hop.pre)
        IN /\ (hop.rv = 0) <=> (n + 1 < hop.pre.writer_len_remaining)
           /\ hop.rv = 0 =>
                /\ Slice(hb.mem, off + 1, off + n + 1) = hop.line \o <<LF>>
                /\ WriterOff(hb) = off + n + 1
                /\ hb.writer_len_remaining = hop.pre.writer_len_remaining - (n + 1)
                /\ BeforeOff(hb, off) = BeforeOff(hop.pre, off)
                /\ hb.strategy = hop.pre.strategy
                /\ hb.addr = hop.pre.addr
                /\ hb.len = hop.pre.len

C8_Witness ==
    /\ JustAppended /\ hop.rv = 0
    /\ Len(hop.line) > 0
    /\ WriterOff(hop.pre) > 0
    /\ hb.writer_len_remaining > 1

\* C9: an append that reports insufficient space (1) leaves the cursor and
\* writer_len_remaining as they were, every byte from the cursor to the end
\* of the region zero, every byte before the cursor, the strategy and the
\* length unchanged.
C9_AppendInsufficient ==
    (JustAppended /\ hop.rv = 1) =>
        LET off == WriterOff(hop.pre) IN
        /\ hb.writer_ptr = hop.pre.writer_ptr
        /\ hb.writer_len_remaining = hop.pre.writer_len_remaining
        /\ AllZero(FromOff(hb, off))
        /\ BeforeOff(hb, off) = BeforeOff(hop.pre, off)
        /\ hb.strategy = hop.pre.strategy
        /\ hb.len = hop.pre.len
        /\ Len(hb.mem) = hb.len

C9_Witness ==
    /\ JustAppended /\ hop.rv = 1
    /\ Len(hop.line) > hop.pre.writer_len_remaining
    /\ hop.pre.writer_len_remaining > 1
    /\ WriterOff(hop.pre) > 0

\* C10 as stated, for the two buffers of a run: the buffer of catlines is
\* dirty exactly when bytes were read into it since it was created or wiped;
\* the buffer of hamming is dirty exactly when a line was appended to it
\* since it was created or replaced, and dirty whenever it is flushed.
C10_DirtyIffWritten ==
    scen = "pipe" =>
        /\ cons.pc \in {"read", "write", "wipe"} =>
              (cons.sbuf.dirty <=> WriterOff(cons.sbuf) > 0)
        /\ cons.pc = "dispose" => ~cons.sbuf.dirty
        /\ prod.pc \in {"append", "final"} =>
              (prod.sbuf.dirty <=> WriterOff(prod.sbuf) > 0)
        /\ prod.pc = "send" => prod.sbuf.dirty

----------------------------------------------------------------------------
(* The arena of the skip list: sdict_sl_init, sdict_sl_allocnode,          *)
(* sdict_sl_realloc, sdict_sl_destruct.  Integers and pointers are stored  *)
(* little-endian.                                                          *)

\* (int) v as 4 bytes
IntBytes(v) ==
    [i \in 1..SizeofInt |-> IF i = 1 THEN v % 256
                            ELSE IF i = 2 THEN (v \div 256) % 256 ELSE 0]
\* (void*) a as 8 bytes
PtrBytes(a) ==
    [i \in 1..SizeofPtr |-> IF i = 1 THEN a % 256
                            ELSE IF i = 2 THEN (a \div 256) % 256
                            ELSE IF i = 3 THEN (a \div 65536) % 256 ELSE 0]
\* the int stored at offset off of mem
IntAt(mem, off) == mem[off + 1] + 256 * mem[off + 2]
\* the pointer stored at offset off of mem
PtrAt(mem, off) == mem[off + 1] + 256 * mem[off + 2] + 65536 * mem[off + 3]

\* the k-th region malloc hands out (k = 1, 2, ...): regions lie apart
ArenaAddr(k) == k * (4 * page_size)

\* variant: the struct skiplist_node in front of the slots is not counted
NodeSize_slots_only(linkptr_ct, dataptr_ct) ==
    (linkptr_ct + dataptr_ct) * SizeofPtr

\* sizeof(struct skiplist_node) + ((linkptr_ct + dataptr_ct) * sizeof(void*))
NodeSize(linkptr_ct, dataptr_ct) ==
    SizeofNode + (linkptr_ct + dataptr_ct) * SizeofPtr

\* (sd->sl_sbuflist)[(sd->sl_sbuflist_entry_ct - 1)]
LastSbuf(d) == d.slots[d.sl_sbuflist_entry_ct]

\* sl_sbuflist[k] = b (k is the C index)
SetSlot(d, k, b) ==
    [d EXCEPT !.slots = IF k + 1 <= Len(d.slots)
                        THEN [d.slots EXCEPT ![k + 1] = b]
                        ELSE Append(d.slots, b)]

\* sl_sbuflist[k] does not lie inside the region of sl_sbuflist_sbuf
SlotOutside(d, k) == (k + 1) * SizeofSharkybuf > d.sl_sbuflist_sbuf.len

\* realloc moved the region to new_addr (or left it in place)
sdict_sl_realloc(d, new_addr) ==
    LET new_len == d.sl_sbuflist_sbuf.len * 2
        sb1 == sb_realloc(d.sl_sbuflist_sbuf, new_len, new_addr)
    IN [d EXCEPT !.sl_sbuflist_sbuf = sb1, !.sl_sbuflist = sb1.addr]

\* sdict_sl_allocnode, "Check available space": when the last buffer is too
\* small, "check if memory allocation for list of buffers needs enlarging"
\* and "Create new buffer".  seg_addr and dir_addr are what malloc and
\* realloc return if they are called.  added: a buffer was added; grew: the
\* list was enlarged; outside: the struct of the added buffer was written
\* outside the region of sl_sbuflist_sbuf; abort: the assert failed.
allocnode_ensure(d, node_size, seg_addr, dir_addr) ==
    LET need == LastSbuf(d).writer_len_remaining < node_size
        grow == need /\ d.sl_sbuflist_sbuf.writer_len_remaining < SizeofSharkybuf
        d1 == IF grow THEN sdict_sl_realloc(d, dir_addr) ELSE d
    IN IF ~need
       THEN [sd |-> d, abort |-> FALSE, added |-> FALSE, grew |-> FALSE,
             outside |-> FALSE]
       ELSE IF ~(d1.sl_sbuflist_sbuf.writer_len_remaining >= SizeofSharkybuf)
       THEN [sd |-> d1, abort |-> TRUE, added |-> FALSE, grew |-> grow,
             outside |-> FALSE]
       ELSE [sd |-> [SetSlot(d1, d.sl_sbuflist_entry_ct,
                             sb_create_malloc(seg_addr, page_size))
                        EXCEPT !.sl_sbuflist_entry_ct = d.sl_sbuflist_entry_ct + 1],
             abort |-> FALSE, added |-> TRUE, grew |-> grow,
             outside |-> SlotOutside(d1, d.sl_sbuflist_entry_ct)]

\* variant: the node is carved but dataptr_ct is not stored
allocnode_carve_no_dataptr_ct(e, linkptr_ct, dataptr_ct) ==
    LET node_size == NodeSize(linkptr_ct, dataptr_ct)
        last == LastSbuf(e.sd)
        off == WriterOff(last)
    IN IF e.abort \/ ~(last.writer_len_remaining >= node_size)
       THEN [sd |-> e.sd, node |-> 0, abort |-> TRUE, added |-> e.added,
             grew |-> e.grew, outside |-> e.outside]
       ELSE [sd |-> SetSlot(e.sd, e.sd.sl_sbuflist_entry_ct - 1,
                  [last EXCEPT
                      !.mem = Store(last.mem, off, IntBytes(linkptr_ct)),
                      !.writer_ptr = last.writer_ptr + node_size,
                      !.writer_len_remaining = last.writer_len_remaining - node_size]),
             node |-> last.writer_ptr, abort |-> FALSE, added |-> e.added,
             grew |-> e.grew, outside |-> e.outside]

\* sdict_sl_allocnode from "Assert that there is enough room now for the new
\* node": the node is carved from the last buffer
allocnode_carve(e, linkptr_ct, dataptr_ct) ==
    LET node_size == NodeSize(linkptr_ct, dataptr_ct)
        last == LastSbuf(e.sd)
        off == WriterOff(last)
    IN IF e.abort \/ ~(last.writer_len_remaining >= node_size)
       THEN [sd |-> e.sd, node |-> 0, abort |-> TRUE, added |-> e.added,
             grew |-> e.grew, outside |-> e.outside]
       ELSE [sd |-> SetSlot(e.sd, e.sd.sl_sbuflist_entry_ct - 1,
                  [last EXCEPT
                      !.mem = Store(Store(last.mem, off, IntBytes(linkptr_ct)),
                                    off + SizeofInt, IntBytes(dataptr_ct)),
                      !.writer_ptr = last.writer_ptr + node_size,
                      !.writer_len_remaining = last.writer_len_remaining - node_size]),
             node |-> last.writer_ptr, abort |-> FALSE, added |-> e.added,
             grew |-> e.grew, outside |-> e.outside]

\* F applied to the value of x
Bind(x, F(_)) == CHOOSE r \in {F(v) : v \in {x}} : TRUE

\* sdict_sl_allocnode(sd, linkptr_ct, dataptr_ct): the struct afterwards, the
\* node address, and what allocnode_ensure reports
sdict_sl_allocnode(d, linkptr_ct, dataptr_ct, seg_addr, dir_addr) ==
    Bind(allocnode_ensure(d, NodeSize(linkptr_ct, dataptr_ct), seg_addr, dir_addr),
         LAMBDA e : allocnode_carve(e, linkptr_ct, dataptr_ct))

\* the segment (C index) and offset an address of a node lies at
NodeSeg(d, addr) ==
    CHOOSE k \in 0..(d.sl_sbuflist_entry_ct - 1) :
        /\ d.slots[k + 1].addr <= addr
        /\ addr < d.slots[k + 1].addr + d.slots[k + 1].len

\* sd->sl_headnode->ptr[i] = sd->sl_sentinel for every slot of the head node
RECURSIVE SetHeadPtrs(_, _, _, _, _)
SetHeadPtrs(mem, headoff, i, n, sentinel) ==
    IF i >= n THEN mem
    ELSE SetHeadPtrs(Store(mem, headoff + SizeofNode + i * SizeofPtr, PtrBytes(sentinel)),
                     headoff, i + 1, n, sentinel)

\* sdict_sl_init up to the first sdict_sl_allocnode: both buffers created,
\* "Bump sd->sl_sbuflist_sbuf writer pointer"
sdict_sl_init_buffers(d, dir_addr, seg_addr) ==
    LET dir == sb_create_malloc(dir_addr, page_size)
        d1 == [d EXCEPT !.sl_sbuflist_sbuf = dir,
                        !.sl_sbuflist = dir.addr,
                        !.sl_sbuflist_entry_ct = 0,
                        !.slots = <<>>]
        d2 == [SetSlot(d1, 0, sb_create_malloc(seg_addr, page_size))
                  EXCEPT !.sl_sbuflist_entry_ct = 1]
    IN [d2 EXCEPT
          !.sl_sbuflist_sbuf.writer_ptr = dir.writer_ptr + SizeofSharkybuf,
          !.sl_sbuflist_sbuf.writer_len_remaining =
              dir.writer_len_remaining - SizeofSharkybuf]

\* variant: the loop over the slots of the head node stops one slot early
init_head_ptrs_one_short(d) ==
    LET k == NodeSeg(d, d.sl_headnode)
        seg == d.slots[k + 1]
        headoff == d.sl_headnode - seg.addr
        n == IntAt(seg.mem, headoff) + IntAt(seg.mem, headoff + SizeofInt)
    IN [d EXCEPT !.slots[k + 1].mem =
            SetHeadPtrs(seg.mem, headoff, 0, n - 1, d.sl_sentinel)]

\* sdict_sl_init, "Initialize skiplist headnode pointers"
init_head_ptrs(d) ==
    LET k == NodeSeg(d, d.sl_headnode)
        seg == d.slots[k + 1]
        headoff == d.sl_headnode - seg.addr
        n == IntAt(seg.mem, headoff) + IntAt(seg.mem, headoff + SizeofInt)
    IN [d EXCEPT !.slots[k + 1].mem =
            SetHeadPtrs(seg.mem, headoff, 0, n, d.sl_sentinel)]

\* sdict_sl_init: the struct afterwards, or an assert of sdict_sl_allocnode
\* failed.  The head node and the sentinel come from the first buffer or,
\* when that is too small, from buffers added for them.
sdict_sl_init(d, naddr) ==
    Bind(sdict_sl_init_buffers(d, ArenaAddr(naddr + 1), ArenaAddr(naddr + 2)),
      LAMBDA d0 :
        Bind(sdict_sl_allocnode(d0, SKIPLIST_MAX_LEVELS, 0,
                                ArenaAddr(naddr + 3), ArenaAddr(naddr + 4)),
          LAMBDA h :
            IF h.abort THEN [sd |-> h.sd, abort |-> TRUE]
            ELSE Bind(sdict_sl_allocnode(h.sd, 0, 0,
                                         ArenaAddr(naddr + 5), ArenaAddr(naddr + 6)),
                   LAMBDA t :
                     IF t.abort THEN [sd |-> t.sd, abort |-> TRUE]
                     ELSE [sd |-> init_head_ptrs(
                                     [t.sd EXCEPT !.sl_headnode = h.node,
                                                  !.sl_sentinel = t.node]),
                           abort |-> FALSE])))

\* sdict_sl_destruct: "Dispose of all sbufs in the pool", from the last one
RECURSIVE DisposePool(_)
DisposePool(d) ==
    IF ~(d.sl_sbuflist_entry_ct > 0)
    THEN [sd |-> d, abort |-> FALSE, freed |-> <<>>]
    ELSE IF sb_dispose_aborts(LastSbuf(d))
    THEN [sd |-> d, abort |-> TRUE, freed |-> <<>>]
    ELSE Bind([SetSlot(d, d.sl_sbuflist_entry_ct - 1, sb_dispose(LastSbuf(d)))
                  EXCEPT !.sl_sbuflist_entry_ct = d.sl_sbuflist_entry_ct - 1],
              LAMBDA d1 : [DisposePool(d1) EXCEPT
                              !.freed = <<LastSbuf(d).addr>> \o @])

\* sdict_sl_destruct: "Dispose of sbuf used to store pool sbuf structs" and
\* "Clear skiplist struct entries"
destruct_directory(p) ==
    IF p.abort \/ sb_dispose_aborts(p.sd.sl_sbuflist_sbuf)
    THEN [sd |-> p.sd, abort |-> TRUE, freed |-> p.freed]
    ELSE [sd |-> [p.sd EXCEPT
                     !.sl_sbuflist_sbuf = sb_dispose(p.sd.sl_sbuflist_sbuf),
                     !.slots = <<>>,
                     !.sl_sentinel = 0,
                     !.sl_headnode = 0,
                     !.sl_sbuflist = 0],
          abort |-> FALSE,
          freed |-> Append(p.freed, p.sd.sl_sbuflist_sbuf.addr)]

sdict_sl_destruct(d) == Bind(DisposePool(d), LAMBDA p : destruct_directory(p))

(* ---- arena harness ---- *)

\* (linkptr_ct, dataptr_ct) of the nodes the harness asks for
ArenaArgs == {<<0, 0>>, <<1, SKIPLIST_UNROLLED_DATAITEMS>>, <<SKIPLIST_MAX_LEVELS, 0>>}

\* the record of a node handed out at addr
NodeRec(d, addr, l, n) ==
    [addr |-> addr, seg |-> NodeSeg(d, addr),
     off |-> addr - d.slots[NodeSeg(d, addr) + 1].addr,
     size |-> NodeSize(l, n), linkptr_ct |-> l, dataptr_ct |-> n]

InitArena ==
    /\ scen = "arena"
    /\ page_size = ArenaPage
    /\ sd = sd_cleared
    /\ aop = NoArenaOp
    /\ hb = sb_unallocated
    /\ hop = NoOp
    /\ inp = IdleInp
    /\ prod = IdleProc
    /\ cons = IdleProc
    /\ pipe = IdlePipe
    /\ out = <<>>
    /\ hist = IdleHist

AFrame == UNCHANGED <<page_size, inp, prod, cons, pipe, out, hist, hb, hop, scen>>

ArenaLive == aop.op \in {"init", "allocnode"}

A_Init ==
    /\ scen = "arena" /\ aop.op = "none"
    /\ \E r \in {sdict_sl_init(sd, aop.naddr)} :
       /\ sd' = r.sd
       /\ aop' = IF r.abort
                 THEN [aop EXCEPT !.op = "abort", !.pre = sd]
                 ELSE [op |-> "init", pre |-> sd,
                       nodes |-> <<NodeRec(r.sd, r.sd.sl_headnode, SKIPLIST_MAX_LEVELS, 0),
                                   NodeRec(r.sd, r.sd.sl_sentinel, 0, 0)>>,
                       naddr |-> aop.naddr + 1 + r.sd.sl_sbuflist_entry_ct,
                       calls |-> aop.calls, oob |-> FALSE, freed |-> <<>>]
    /\ AFrame

\* the struct of the last buffer of the pool lies outside the region of
\* sl_sbuflist_sbuf: every access to it is outside the region
LastSlotOutside(d) ==
    d.sl_sbuflist_entry_ct > 0 /\ SlotOutside(d, d.sl_sbuflist_entry_ct - 1)

\* a struct written outside its region: the write may fault, or land in
\* memory nobody uses, or land in the neighbouring region, here the start
\* of the first buffer of the pool
Clobbered(d) ==
    [d EXCEPT !.slots[1].mem =
        Store(d.slots[1].mem, 0, [i \in 1..Min(SizeofNode, Len(d.slots[1].mem)) |-> 255])]

A_AllocNode ==
    /\ scen = "arena" /\ ArenaLive
    /\ aop.calls < ArenaMaxCalls
    /\ \E arg \in ArenaArgs, fate \in {"lands", "clobbers", "faults"} :
        \E r \in {sdict_sl_allocnode(sd, arg[1], arg[2],
                                     ArenaAddr(aop.naddr + 1), ArenaAddr(aop.naddr + 2))} :
           /\ ~(r.outside \/ LastSlotOutside(sd)) => fate = "lands"
           /\ sd' = IF fate = "clobbers" THEN Clobbered(r.sd) ELSE r.sd
           /\ aop' = IF r.abort \/ fate = "faults"
                     THEN [aop EXCEPT !.op = IF r.abort THEN "abort" ELSE "fault",
                                      !.pre = sd, !.calls = aop.calls + 1]
                     ELSE [op |-> "allocnode", pre |-> sd,
                           nodes |-> Append(aop.nodes,
                                            NodeRec(r.sd, r.node, arg[1], arg[2])),
                           naddr |-> aop.naddr + (IF r.added THEN 1 ELSE 0)
                                              + (IF r.grew THEN 1 ELSE 0),
                           calls |-> aop.calls + 1,
                           oob |-> aop.oob \/ r.outside, freed |-> <<>>]
    /\ AFrame

\* sdict_sl_destruct; when structs of the pool lie outside the region of
\* sl_sbuflist_sbuf the loop reads and writes outside it, and free() works
\* on a heap that was written outside a region: the call may complete or
\* the process may die in it
A_Destruct ==
    /\ scen = "arena" /\ ArenaLive
    /\ \E fate \in {"completes", "faults"} :
        \E r \in {sdict_sl_destruct(sd)} :
           /\ ~LastSlotOutside(sd) => fate = "completes"
           /\ sd' = IF fate = "faults" THEN sd ELSE r.sd
           /\ aop' = IF fate = "faults"
                     THEN [aop EXCEPT !.op = "destruct_fault", !.pre = sd]
                     ELSE [aop EXCEPT
                              !.op = IF r.abort THEN "abort" ELSE "destruct",
                              !.pre = sd, !.nodes = <<>>, !.freed = r.freed]
    /\ AFrame

NextArena ==
    \/ A_Init
    \/ A_AllocNode
    \/ A_Destruct

SpecArena == InitArena /\ [][NextArena]_vars

\* every program and harness of the model
InitAll == InitPipe \/ InitBuf \/ InitArena
NextAll == NextPipe \/ NextBuf \/ NextArena
SpecAll == InitAll /\ [][NextAll]_vars

\* writer_cursor + writer_remaining == length, the cursor inside the region
\* and the region as long as len says
CursorConsistent(sb) ==
    /\ WriterOff(sb) + sb.writer_len_remaining = sb.len
    /\ WriterOff(sb) >= 0 /\ sb.writer_len_remaining >= 0
    /\ Len(sb.mem) = sb.len

\* the buffers of the state that are allocated
LiveBuffers ==
    (IF scen = "pipe" THEN {prod.sbuf, cons.sbuf} ELSE {})
    \cup (IF scen = "buf" THEN {hb} ELSE {})
    \cup (IF scen = "arena"
          THEN {sd.sl_sbuflist_sbuf}
               \cup {sd.slots[k] : k \in 1..sd.sl_sbuflist_entry_ct}
          ELSE {})

\* C4: for every buffer (of hamming, of catlines, of the harness, the list
\* buffer of the arena and every buffer of its pool), after every completed
\* call: cursor offset + writer_len_remaining = len.
C4_CursorPlusRemainingIsLen ==
    \A sb \in LiveBuffers :
        sb.strategy # SHARKYBUF_STRATEGY_UNALLOCATED => CursorConsistent(sb)

C4_Witness ==
    /\ scen = "buf" /\ hop.op = "realloc"
    /\ hb.addr # hop.pre.addr
    /\ WriterOff(hb) > 0
    /\ hb.writer_len_remaining > hop.pre.writer_len_remaining

\* C11: right after sb_wipe every byte of the region is zero, the cursor is
\* at offset 0, writer_len_remaining is len and dirty is false, with the
\* strategy, address and length the buffer had before; and wiping the result
\* once more gives the same buffer.
C11_WipeIdempotent ==
    (scen = "buf" /\ hop.op = "wipe") =>
        /\ AllZero(hb.mem) /\ Len(hb.mem) = hb.len
        /\ WriterOff(hb) = 0
        /\ hb.writer_len_remaining = hb.len
        /\ hb.dirty = FALSE
        /\ hb.strategy = hop.pre.strategy
        /\ hb.addr = hop.pre.addr
        /\ hb.len = hop.pre.len
        /\ sb_wipe(hb) = hb
        /\ sb_wipe(sb_wipe(hop.pre)) = sb_wipe(hop.pre)

C11_Witness ==
    /\ scen = "buf" /\ hop.op = "wipe"
    /\ hop.pre.dirty
    /\ WriterOff(hop.pre) > 0
    /\ ~AllZero(hop.pre.mem)
    /\ hb.strategy = SHARKYBUF_STRATEGY_MALLOC

\* the regions flushed by the first n calls of sb_sendbuf_vmsplice, in order
RECURSIVE FlushedText(_, _)
FlushedText(fl, n) ==
    IF n = 0 THEN <<>> ELSE FlushedText(fl, n - 1) \o fl[n].mem

\* the step that completes a call of sb_sendbuf_vmsplice
FlushCompletes ==
    scen = "pipe" /\ prod.pc = "send" /\ prod'.pc = prod.after

\* C12: a call of sb_sendbuf_vmsplice on an mmap buffer of length L that
\* completes has passed exactly the L bytes of the region to the pipe, in
\* order and each once, whatever the single vmsplice calls took (while it
\* runs, the bytes passed are the first iov_off bytes of the region); it
\* leaves in the same struct a fresh mmap buffer of length L: zero-filled,
\* cursor at offset 0, writer_len_remaining L, not dirty.
C12_GiftTransfersRegion ==
    [][/\ (scen = "pipe" /\ prod.pc = "send") =>
            /\ prod.sbuf.strategy = SHARKYBUF_STRATEGY_MMAP
            /\ hist.flushes[Len(hist.flushes)].mem = prod.sbuf.mem
            /\ prod.reader_len_remaining = prod.sbuf.len - prod.iov_off
            /\ hist.sent = FlushedText(hist.flushes, Len(hist.flushes) - 1)
                               \o Slice(prod.sbuf.mem, 1, prod.iov_off)
       /\ FlushCompletes =>
            /\ hist'.sent = FlushedText(hist.flushes, Len(hist.flushes) - 1)
                                \o prod.sbuf.mem
            /\ Len(hist'.sent) = Len(hist.flushes) * prod.sbuf.len
            /\ prod'.sbuf = sb_create_mmap(prod'.sbuf.addr, prod.sbuf.len)
            /\ prod'.sbuf.addr # 0
            /\ prod'.sbuf.len = prod.sbuf.len
            /\ AllZero(prod'.sbuf.mem)
            /\ WriterOff(prod'.sbuf) = 0
            /\ prod'.sbuf.writer_len_remaining = prod.sbuf.len
            /\ ~prod'.sbuf.dirty
      ]_vars

\* a second flush has completed: two regions passed whole, the buffer fresh
C12_Witness ==
    /\ scen = "pipe" /\ prod.pc = "append"
    /\ Len(hist.flushes) = 2
    /\ Len(hist.sent) = 2 * page_size
    /\ hist.sent = FlushedText(hist.flushes, 2)
    /\ ~AllZero(hist.sent)
    /\ prod.sbuf = sb_create_mmap(prod.sbuf.addr, page_size)

\* the bytes the runs refs[1..n] name: mapping rid is the one flushed by the
\* rid-th call of sb_sendbuf_vmsplice
RECURSIVE GiftedText(_, _, _)
GiftedText(refs, fl, n) ==
    IF n = 0 THEN <<>>
    ELSE GiftedText(refs, fl, n - 1)
            \o Slice(fl[refs[n].rid].mem, refs[n].from + 1, refs[n].to + 1)

\* C13: the bytes a vmsplice call has passed to the pipe belong to the pipe
\* (and then to catlines): hamming neither appends to nor passes again any
\* byte of a mapping that the pipe has accepted.  Each mapping is passed as
\* one run from offset 0, at most once; of the current mapping of hamming
\* bytes are passed only while sb_sendbuf_vmsplice runs, and only those
\* before iov_base; whenever hamming appends, its buffer is a mapping of
\* which nothing has been passed (the replacement); and what the pipe got
\* is what the mappings held when they were flushed.
C13_GiftIsMove ==
    scen = "pipe" =>
        /\ \A i \in DOMAIN hist.refs :
              LET r == hist.refs[i] IN
              /\ r.rid = i /\ r.rid <= prod.region
              /\ r.rid <= Len(hist.flushes)
              /\ r.from = 0 /\ r.to < page_size
              /\ r.rid = prod.region =>
                    /\ prod.pc \in {"send", "exited"}
                    /\ r.to < prod.iov_off
              /\ r.rid < prod.region => r.to = page_size - 1
        /\ prod.pc \in {"append", "final", "dispose"} =>
              /\ prod.region = Len(hist.flushes) + 1
              /\ \A i \in DOMAIN hist.refs : hist.refs[i].rid < prod.region
        /\ prod.pc = "send" => prod.region = Len(hist.flushes)
        /\ Len(hist.refs) <= Len(hist.flushes)
        /\ hist.sent = GiftedText(hist.refs, hist.flushes, Len(hist.refs))

\* two mappings are with the pipe or catlines, bytes of the second are still
\* in the pipe, and hamming has appended to the third
C13_Witness ==
    /\ scen = "pipe" /\ prod.pc = "append"
    /\ Len(hist.refs) = 2 /\ prod.region = 3
    /\ hist.refs[2].to = page_size - 1
    /\ Len(pipe.data) > 0
    /\ WriterOff(prod.sbuf) > 0
    /\ prod.sbuf.dirty

\* C14: a read, a write or a vmsplice that fails with EINTR or EAGAIN is
\* retried and never ends the process: no process has exited on one of
\* these two errnos.
C14_TransientNeverTerminates ==
    scen = "pipe" =>
        /\ ~(prod.pc = "exited" /\ prod.err \in {"EINTR", "EAGAIN"})
        /\ ~(cons.pc = "exited" /\ cons.err \in {"EINTR", "EAGAIN"})

\* the errnos a process survives
Survivable == {"none", "EINTR", "EAGAIN"}

\* C15: an error of read, write or vmsplice other than EINTR and EAGAIN ends
\* the process with status 4, with no retry and no return to the caller: a
\* process that is still running has seen no such errno, and a process that
\* ended on an errno ended with status 4.  A failed mmap, posix_memalign,
\* malloc or realloc ends it the same way: ENOMEM is never survived, and the
\* buffer operations that fail to allocate leave the struct as it was and
\* exit with 4.
C15_PermanentErrorIsFatal ==
    /\ scen = "pipe" =>
          /\ prod.pc # "exited" => prod.err \in Survivable
          /\ cons.pc # "exited" => cons.err \in Survivable
          /\ (prod.pc = "exited" /\ prod.err # "none") => prod.status = 4
          /\ (cons.pc = "exited" /\ cons.err # "none") => cons.status = 4
          /\ (prod.pc = "exited" /\ prod.status = 4) => prod.err # "none"
          /\ (cons.pc = "exited" /\ cons.status = 4) => cons.err # "none"
    /\ (scen = "buf" /\ hop.op = "exit") => hop.rv = 4 /\ hb = hop.pre

\* catlines ended on EIO with status 4 after hamming ended on a failed mmap
C15_Witness ==
    /\ scen = "pipe"
    /\ cons.pc = "exited" /\ cons.err = "EIO" /\ cons.status = 4
    /\ prod.pc = "exited" /\ prod.err = "ENOMEM" /\ prod.status = 4
    /\ Len(hist.flushes) > 0

AllocatedStrategies ==
    {SHARKYBUF_STRATEGY_MMAP, SHARKYBUF_STRATEGY_POSIX_MEMALIGN,
     SHARKYBUF_STRATEGY_MALLOC}

\* C16: sb_dispose of a buffer of one of the three allocated strategies
\* leaves strategy UNALLOCATED, addr and writer_ptr NULL, len and
\* writer_len_remaining 0 and dirty false; sb_dispose of a struct whose
\* strategy is UNALLOCATED or no strategy at all aborts, leaving the struct;
\* so sb_dispose right after sb_dispose aborts, and whenever sb_dispose
\* aborted the struct was not an allocated buffer.
C16_DisposeResetsOrAborts ==
    scen = "buf" =>
        /\ hop.op = "dispose" =>
              /\ hop.pre.strategy \in AllocatedStrategies
              /\ hb.strategy = SHARKYBUF_STRATEGY_UNALLOCATED
              /\ hb.addr = 0 /\ hb.writer_ptr = 0
              /\ hb.len = 0 /\ hb.writer_len_remaining = 0
              /\ hb.dirty = FALSE
              /\ sb_dispose_aborts(hb)
        /\ \A s \in {SHARKYBUF_STRATEGY_UNALLOCATED,
                     SHARKYBUF_STRATEGY_MALLOC + 1, -1} :
              sb_dispose_aborts([hb EXCEPT !.strategy = s])
        /\ (hop.op = "abort" /\ hop.call = "dispose") =>
              /\ hb = hop.pre
              /\ hb.strategy = SHARKYBUF_STRATEGY_UNALLOCATED
        /\ hop.op \in {"none", "dispose"} <=>
              hb.strategy = SHARKYBUF_STRATEGY_UNALLOCATED /\ HarnessRunning

\* sb_dispose was called twice in a row and the second call aborted
C16_Witness ==
    /\ scen = "buf"
    /\ hop.op = "abort" /\ hop.call = "dispose" /\ hop.last = "dispose"
    /\ hb = sb_unallocated

\* the line with its LF and the NUL of snprintf fits a buffer of one page
FitsFresh(line) == Len(line) + 2 <= page_size

\* the flush i was made because the candidate did not fit, and the candidate
\* fits a fresh buffer
RetryFlush(i) ==
    /\ hist.flushes[i].why = "nospace"
    /\ FitsFresh(hist.flushes[i].line)

\* C17: for a candidate that fits a fresh buffer sb_append_line_or_zeroes
\* returns nonzero at most once: no two flushes were made for the same
\* candidate (the same number of candidates appended before them), and the
\* append that follows the flush returns 0.
C17_RetryAtMostOnce ==
    scen = "pipe" =>
        /\ \A i, j \in DOMAIN hist.flushes :
              (i < j /\ RetryFlush(i) /\ RetryFlush(j)) =>
                  hist.flushes[i].n < hist.flushes[j].n
        /\ LET k == Len(hist.flushes) IN
           (/\ prod.pc = "append" /\ k > 0
            /\ RetryFlush(k) /\ hist.flushes[k].n = Len(hist.gen)) =>
              /\ hist.flushes[k].line
                    = Candidate(inp.name, prod.e.editcols, prod.e.c)
              /\ sb_append_rv(prod.sbuf, hist.flushes[k].line) = 0
              /\ prod.sbuf.writer_len_remaining = page_size

\* two candidates were flushed for, and each was appended after its flush
C17_Witness ==
    /\ scen = "pipe" /\ prod.pc = "append"
    /\ Len(hist.flushes) = 2
    /\ RetryFlush(1) /\ RetryFlush(2)
    /\ hist.flushes[1].n < hist.flushes[2].n
    /\ hist.flushes[2].n < Len(hist.gen)
    /\ hist.gen[hist.flushes[2].n + 1] = hist.flushes[2].line

\* the flushes made after the loops of hamming
FinalFlushes == {i \in DOMAIN hist.flushes : hist.flushes[i].why = "final"}

\* hamming has returned: main is at close(fd[1]) or beyond it
HammingReturned ==
    \/ prod.pc \in {"close_wr", "wait"}
    \/ prod.pc = "exited" /\ prod.status \in {0, 5}

\* C18: once the loops of hamming are over, hamming calls
\* sb_sendbuf_vmsplice once if sbuf.dirty and not at all otherwise, then
\* sb_dispose, and main closes fd[1] only after hamming returned; after
\* sb_dispose nothing is appended and nothing is passed to the pipe.
\* In states: there is at most one final flush, it is the last flush, and it
\* was made iff a candidate was appended (every flush before it was followed
\* by the append of its candidate, so the buffer is dirty at the end iff
\* there was a candidate); at sb_dispose and after it every candidate was
\* appended and every flushed page went to the pipe whole; after hamming
\* returned the struct is unallocated; fd[1] is open until close(fd[1]).
\* In steps: the step after the loops flushes iff dirty, and no step from
\* sb_dispose on changes what was appended, flushed or sent.
C18_ShutdownOrder ==
    [][ scen = "pipe" =>
        /\ Cardinality(FinalFlushes) <= 1
        /\ \A i \in FinalFlushes :
              /\ i = Len(hist.flushes)
              /\ hist.flushes[i].n = Len(AllCandidates)
              /\ prod.pc \in {"send", "dispose", "exited"} \/ HammingReturned
        /\ (prod.pc = "dispose" \/ HammingReturned) =>
              /\ hist.gen = AllCandidates
              /\ FinalFlushes # {} <=> hist.gen # <<>>
              /\ Len(hist.sent) = page_size * Len(hist.flushes)
              /\ hist' = hist
              /\ prod'.sbuf \in {prod.sbuf, sb_unallocated}
        /\ prod.pc = "dispose" =>
              prod.sbuf = sb_create_mmap(prod.sbuf.addr, page_size)
        /\ HammingReturned => prod.sbuf = sb_unallocated
        /\ prod.pc = "close_wr" => "prod" \in pipe.wr
        /\ (prod.pc = "wait" \/ prod.pc = "exited") => "prod" \notin pipe.wr
        /\ (prod.pc = "final" /\ prod' # prod) =>
              IF prod.sbuf.dirty
              THEN /\ prod'.pc = "send" /\ prod'.after = "dispose"
                   /\ Len(hist'.flushes) = Len(hist.flushes) + 1
                   /\ hist'.flushes[Len(hist'.flushes)].why = "final"
                   /\ hist'.flushes[Len(hist'.flushes)].mem = prod.sbuf.mem
              ELSE prod'.pc = "dispose" /\ hist' = hist
        /\ (prod.pc = "dispose" /\ prod' # prod) =>
              /\ prod'.pc = "close_wr" /\ prod'.sbuf = sb_unallocated
              /\ pipe' = pipe
        /\ (prod.pc = "close_wr" /\ prod' # prod) =>
              /\ prod'.pc = "wait"
              /\ pipe'.wr = pipe.wr \ {"prod"}
              /\ pipe'.data = pipe.data
    ]_vars

\* hamming flushed a full page and then the last, dirty one, released the
\* buffer, and main closed fd[1]
C18_Witness ==
    /\ scen = "pipe" /\ prod.pc = "wait"
    /\ Len(hist.flushes) >= 2
    /\ hist.flushes[1].why = "nospace"
    /\ FinalFlushes = {Len(hist.flushes)}
    /\ prod.sbuf = sb_unallocated
    /\ "prod" \notin pipe.wr

\* catlines has left its loop
CatlinesDone ==
    \/ cons.pc \in {"dispose", "close_rd"}
    \/ cons.pc = "exited" /\ cons.status = 0

\* C19: in catlines every return of sb_recvbuf_read is followed by one
\* sb_buf_to_stdout and then one sb_wipe, whatever was returned: the calls
\* of sb_buf_to_stdout are as many as the returns of sb_recvbuf_read, the
\* calls of sb_wipe as many at the top of the loop and after it, and one
\* fewer between the two.  catlines leaves the loop exactly when
\* sb_recvbuf_read returned 1, which it does only at end of file (the pipe
\* empty, no write end open); it reads again only after a return of 0, with
\* the buffer full.
C19_ConsumerLoop ==
    (scen = "pipe" /\ cons.pc \notin {"close_wr", "catlines"}) =>
        /\ cons.drains = cons.fills
        /\ cons.pc \in {"write", "wipe"} =>
              /\ cons.wipes = cons.fills - 1
              /\ cons.read_rv = 0 => cons.sbuf.writer_len_remaining = 0
        /\ (cons.pc = "read" \/ CatlinesDone) => cons.wipes = cons.fills
        /\ cons.pc = "exited" => cons.wipes \in {cons.fills - 1, cons.fills}
        /\ CatlinesDone => cons.read_rv = 1 /\ cons.fills >= 1
        /\ cons.pc = "read" => cons.read_rv = 0
        /\ cons.read_rv = 1 =>
              /\ cons.pc \in {"write", "wipe", "exited"} \/ CatlinesDone
              /\ pipe.data = <<>> /\ pipe.wr = {}
        /\ (cons.pc = "exited" /\ cons.status = 4 /\ cons.fills > 0) =>
              cons.err \notin Survivable

\* catlines went round its loop three times and left it at end of file
C19_Witness ==
    /\ scen = "pipe"
    /\ cons.pc = "exited" /\ cons.status = 0
    /\ cons.fills = 3 /\ cons.drains = 3 /\ cons.wipes = 3
    /\ cons.read_rv = 1
    /\ Len(out) > 0

----------------------------------------------------------------------------
(* The two processes with no permanent failure: every allocation succeeds  *)
(* and read, write and vmsplice fail only with EINTR or EAGAIN.  The       *)
(* kernel runs each process that can run, and a call that failed with      *)
(* EINTR or EAGAIN does not fail for ever: weak fairness of the steps of   *)
(* each process.                                                           *)

\* sb_sendbuf_vmsplice: vmsplice() was interrupted by a signal
P_VmspliceInterrupted == VmspliceErr("EINTR")

\* the steps in which the allocation succeeds
L_HammingInit == P_HammingInit /\ prod'.pc # "exited"
L_Vmsplice == P_Vmsplice /\ prod'.pc # "exited"
L_Create == C_Create /\ cons'.pc # "exited"

\* the parent goes on
ProdRuns ==
    \/ P_CloseRead
    \/ L_HammingInit
    \/ P_Append
    \/ P_Final
    \/ L_Vmsplice
    \/ P_Dispose
    \/ P_CloseWrite
    \/ P_Wait

\* the child goes on
ConsRuns ==
    \/ C_CloseWrite
    \/ L_Create
    \/ C_Read
    \/ C_ReadEof
    \/ C_Write
    \/ C_Wipe
    \/ C_Dispose
    \/ C_CloseExit

\* a call fails with EINTR or EAGAIN
TransientFailure ==
    \/ P_VmspliceAgain
    \/ P_VmspliceInterrupted
    \/ C_ReadAgain
    \/ C_WriteAgain

NextLive == ProdRuns \/ ConsRuns \/ TransientFailure

SpecLive ==
    InitPipe /\ [][NextLive]_vars /\ WF_vars(ProdRuns) /\ WF_vars(ConsRuns)

\* hamming waits in vmsplice for room in a full pipe while catlines waits in
\* read for data in an empty one
PipeDeadlock ==
    /\ prod.pc = "send" /\ Len(pipe.data) >= PipeCap
    /\ cons.pc = "read" /\ pipe.data = <<>>

BothDone ==
    /\ prod.pc = "exited" /\ prod.status = 0 /\ "prod" \notin pipe.wr
    /\ cons.pc = "exited" /\ cons.status = 0 /\ cons.read_rv = 1

\* C20: with both processes scheduled fairly, a pipe of bounded capacity and
\* no permanent failure, the two processes are never both waiting on the
\* pipe, and in the end hamming has finished and main has closed fd[1] and
\* exited with 0, and catlines has seen end of file and the child has exited
\* with 0.
C20_BothTerminate == [](~PipeDeadlock) /\ <>BothDone

\* C21: after fork() the child closes fd[1] before catlines reads, and the
\* parent closes fd[0] before hamming passes anything to the pipe: a process
\* beyond its first step does not hold the other end, and nothing was read
\* or sent before that step.  So read() returns 0 (the fill that returns 1)
\* only when the parent has closed fd[1] or exited and the pipe is empty,
\* and once that is so a reading catlines does get it: no write end is left
\* open.
C21_EndsClosedFirst ==
    [][ scen = "pipe" =>
        /\ cons.pc # "close_wr" => "cons" \notin pipe.wr
        /\ prod.pc # "close_rd" => "prod" \notin pipe.rd
        /\ cons.pc = "close_wr" => cons.fills = 0 /\ out = <<>>
        /\ prod.pc = "close_rd" => hist.sent = <<>> /\ pipe.data = <<>>
        /\ (cons.read_rv = 0 /\ cons'.read_rv = 1) =>
              /\ "prod" \notin pipe.wr /\ pipe.wr = {}
              /\ prod.pc \in {"wait", "exited"}
              /\ pipe.data = <<>> /\ pipe' = pipe
        /\ (cons.pc = "read" /\ "prod" \notin pipe.wr /\ pipe.data = <<>>) =>
              /\ pipe.wr = {}
              /\ cons'.pc # "read" => cons'.read_rv = 1 \/ cons'.pc = "exited"
    ]_vars

\* catlines got end of file after reading the pages the parent had sent
\* before closing fd[1]
C21_Witness ==
    /\ scen = "pipe"
    /\ cons.read_rv = 1 /\ cons.fills >= 3
    /\ prod.pc = "wait"
    /\ Len(hist.sent) = (cons.fills - 1) * page_size
    /\ pipe.wr = {} /\ pipe.rd = {"cons"}

----------------------------------------------------------------------------
(* sb_recvbuf_read and sb_buf_to_stdout on any buffer and any stream: the  *)
(* loop of catlines entered with a buffer that already holds text before   *)
(* its writer head and has room left, reading a pipe whose writer has left *)
(* a stream behind and has gone.  Every read() and write() transfers any   *)
(* number of bytes the call allows.  hb keeps the buffer as it was passed  *)
(* to the first call, hist.sent the stream.                                *)

\* bytes of the buffers and streams
IoBytes == {NUL, CharA}

\* the sequences over S of length 0..n
SeqsUpTo(S, n) == UNION {[1..k -> S] : k \in 0..n}

\* a buffer of catlines with text before its writer head
IoBuffer(a, text) ==
    [sb_create_posix_memalign(a, IoPage) EXCEPT
        !.mem = Store(@, 0, text),
        !.writer_ptr = a + Len(text),
        !.writer_len_remaining = IoPage - Len(text),
        !.dirty = Len(text) > 0]

InitIo ==
    \E text \in SeqsUpTo(IoBytes, IoPage - 1),
       stream \in SeqsUpTo(IoBytes, IoMaxStream),
       a \in ConsAddrs :
        /\ scen = "pipe"
        /\ page_size = IoPage
        /\ inp = IdleInp
        /\ prod = [ProdInit EXCEPT !.pc = "exited", !.status = 0]
        /\ cons = [ConsInit EXCEPT !.pc = "read", !.sbuf = IoBuffer(a, text),
                                   !.region = 1]
        /\ pipe = [data |-> Store(stream, 0, <<>>), wr |-> {}, rd |-> {"cons"}]
        /\ out = <<>>
        /\ hist = [IdleHist EXCEPT !.sent = Store(stream, 0, <<>>)]
        /\ hb = IoBuffer(a, text)
        /\ hop = NoOp
        /\ sd = sd_cleared
        /\ aop = NoArenaOp

NextIo ==
    \/ C_Read
    \/ C_ReadEof
    \/ C_ReadAgain
    \/ C_ReadFail
    \/ C_Write
    \/ C_WriteAgain
    \/ C_WriteFail
    \/ C_Wipe
    \/ C_Dispose
    \/ C_CloseExit

SpecIo == InitIo /\ [][NextIo]_vars

\* the call of sb_recvbuf_read that runs or has returned last, counted from 1
IoCall == IF cons.pc = "read" THEN cons.fills + 1 ELSE cons.fills

\* the buffer as passed to call j: the given one, later the one sb_wipe left
IoEntry(j) == IF j = 1 THEN hb ELSE sb_wipe(hb)

\* bytes the calls before call j took from the stream: each of them
\* returned 0, with the buffer full
IoTakenBefore(j) ==
    IF j = 1 THEN 0 ELSE hb.writer_len_remaining + (j - 2) * hb.len

\* bytes call j has received so far, in the order of arrival
IoGot(j) ==
    Slice(hist.sent, IoTakenBefore(j) + 1, Len(hist.sent) - Len(pipe.data))

LastNonNull(mem) ==
    IF \A i \in DOMAIN mem : mem[i] = NUL THEN 0
    ELSE CHOOSE i \in DOMAIN mem :
            mem[i] # NUL /\ \A k \in DOMAIN mem : k > i => mem[k] = NUL

\* mem without its trailing run of '\0'
Trimmed(mem) == Slice(mem, 1, LastNonNull(mem))

\* the region as call i of sb_recvbuf_read left it, for a call that
\* returned 0
IoFilled(i) ==
    IF i = 1
    THEN Store(hb.mem, WriterOff(hb), Slice(hist.sent, 1, hb.writer_len_remaining))
    ELSE Slice(hist.sent, IoTakenBefore(i) + 1, IoTakenBefore(i) + hb.len)

\* what the calls of sb_buf_to_stdout before call j are to write
RECURSIVE IoOutBefore(_)
IoOutBefore(j) ==
    IF j <= 1 THEN <<>>
    ELSE IoOutBefore(j - 1) \o Trimmed(IoFilled(j - 1))

\* C23: sb_buf_to_stdout, whatever the writes take one by one, writes the
\* bytes of the region from offset 0 up to and including the last byte that
\* is not '\0', each once and in order: nothing for a region of zeroes, no
\* byte of the trailing run of '\0'; and it leaves the struct and the region
\* as they were.  In states: standard output holds what the earlier calls
\* wrote, followed by the region up to the reader's place, and the reader
\* has the rest up to the last non-null byte still to write; after the call
\* it holds the trimmed region.  In steps: a write appends the bytes at the
\* reader's place and nothing changes the buffer.
C23_StdoutWritesTrimmed ==
    [][ (scen = "pipe" /\ cons.pc \in {"read", "write", "wipe"}) =>
        LET j == IoCall
            mem == cons.sbuf.mem
            before == IoOutBefore(j)
        IN /\ cons.pc = "read" => out = before
           /\ cons.pc = "write" =>
                 /\ out = before \o Slice(mem, 1, cons.reader_off)
                 /\ cons.reader_len_remaining > 0
                 /\ cons.reader_off + cons.reader_len_remaining
                       = LastNonNull(mem)
                 /\ cons'.pc \in {"write", "wipe"} =>
                       /\ cons'.sbuf = cons.sbuf
                       /\ Len(out') <= Len(before) + LastNonNull(mem)
                       /\ out' = out \o Slice(mem, cons.reader_off + 1,
                                              cons.reader_off + Len(out') - Len(out))
           /\ cons.pc = "wipe" =>
                 /\ out = before \o Trimmed(mem)
                 /\ AllZero(mem) => out = before
                 /\ cons.sbuf.dirty
                 /\ mem = Store(IoEntry(j).mem, WriterOff(IoEntry(j)), IoGot(j))
    ]_vars

\* a region with a '\0' inside the text and one at the end was written out
\* up to its last letter
C23_Witness ==
    /\ scen = "pipe" /\ page_size = IoPage /\ prod.pc = "exited"
    /\ cons.pc = "wipe" /\ cons.drains = 1
    /\ cons.sbuf.mem = <<CharA, NUL, CharA, NUL>>
    /\ out = <<CharA, NUL, CharA>>

----------------------------------------------------------------------------
(* The arena: the list of buffers, the nodes carved from the pool.         *)

\* the arena is set up and no call has aborted
ArenaUp == scen = "arena" /\ ArenaLive

\* C24: after sdict_sl_init and after any sequence of sdict_sl_allocnode
\* calls the list buffer has room for the struct of every buffer of the
\* pool: sl_sbuflist_entry_ct * sizeof(struct sharkybuf) <= len of
\* sl_sbuflist_sbuf, and no struct was written outside its region.
C24_DirectoryHasRoom ==
    (scen = "arena" /\ aop.op \in {"init", "allocnode", "fault"}) =>
        /\ sd.sl_sbuflist_entry_ct * SizeofSharkybuf <= sd.sl_sbuflist_sbuf.len
        /\ ~aop.oob
        /\ aop.op # "fault"

\* the node the last sdict_sl_allocnode call of the harness returned
LastNode == aop.nodes[Len(aop.nodes)]

\* the last call added a buffer to the pool
LastCallAdded == sd.sl_sbuflist_entry_ct = aop.pre.sl_sbuflist_entry_ct + 1

\* the last buffer of the pool as the last call found it: the buffer it
\* added, fresh, or the last buffer there was
CarvedFrom ==
    IF LastCallAdded
    THEN [LastSbuf(sd) EXCEPT !.writer_ptr = LastSbuf(sd).addr,
                              !.writer_len_remaining = LastSbuf(sd).len]
    ELSE LastSbuf(aop.pre)

\* C25: sdict_sl_allocnode(sd, linkptr_ct, dataptr_ct) returns the address
\* the writer head of the last buffer had; the head moves on and
\* writer_len_remaining shrinks by sizeof(struct skiplist_node) +
\* (linkptr_ct + dataptr_ct) * sizeof(void*); the node's linkptr_ct and
\* dataptr_ct are the arguments and every ptr[] slot of it reads as zero.
C25_AllocNodeCarves ==
    (scen = "arena" /\ aop.op = "allocnode") =>
        LET n == LastNode
            size == SizeofNode + (n.linkptr_ct + n.dataptr_ct) * SizeofPtr
            last == LastSbuf(sd)
            off == n.addr - last.addr
        IN /\ n.addr = CarvedFrom.writer_ptr
           /\ last.addr = CarvedFrom.addr
           /\ last.writer_ptr = CarvedFrom.writer_ptr + size
           /\ last.writer_len_remaining = CarvedFrom.writer_len_remaining - size
           /\ off >= 0 /\ off + size <= last.len
           /\ IntAt(last.mem, off) = n.linkptr_ct
           /\ IntAt(last.mem, off + SizeofInt) = n.dataptr_ct
           /\ \A i \in (off + SizeofNode + 1)..(off + size) : last.mem[i] = NUL

\* a node with links and data slots carved behind another node, from a
\* buffer that sdict_sl_allocnode added
C25_Witness ==
    /\ scen = "arena" /\ aop.op = "allocnode"
    /\ ~LastCallAdded
    /\ sd.sl_sbuflist_entry_ct >= 2
    /\ LastNode.linkptr_ct = 1
    /\ LastNode.dataptr_ct = SKIPLIST_UNROLLED_DATAITEMS
    /\ LastNode.addr > LastSbuf(sd).addr
    /\ LastSbuf(sd).writer_ptr = LastNode.addr + NodeSize(1, SKIPLIST_UNROLLED_DATAITEMS)

\* the bytes of node n (a record of aop.nodes) as they stand in the pool of d
NodeBytes(d, n) == SubSeq(d.slots[n.seg + 1].mem, n.off + 1, n.off + n.size)

\* the nodes handed out before the last call of the harness
EarlierNodes == {aop.nodes[i] : i \in 1..(Len(aop.nodes) - 1)}

\* C26: a sdict_sl_allocnode call leaves every node handed out before it
\* where it was and with the bytes it had, also when the call adds a buffer
\* or enlarges the list of buffers; after the list was enlarged sl_sbuflist
\* is the address of the moved region and the structs of the buffers there
\* were are the same.
C26_EarlierNodesUntouched ==
    (scen = "arena" /\ aop.op = "allocnode") =>
        /\ \A n \in EarlierNodes :
              /\ sd.slots[n.seg + 1].addr = aop.pre.slots[n.seg + 1].addr
              /\ NodeBytes(sd, n) = NodeBytes(aop.pre, n)
        /\ sd.sl_sbuflist = sd.sl_sbuflist_sbuf.addr
        /\ \A k \in 1..(aop.pre.sl_sbuflist_entry_ct - 1) :
              sd.slots[k] = aop.pre.slots[k]

\* C27: a sdict_sl_allocnode call adds exactly one buffer of page_size bytes
\* to the pool when, and only when, writer_len_remaining of the last buffer
\* is less than the size of the node asked for; the node is carved from
\* the last buffer, and the content and the writer head of every other
\* buffer of the pool are the same before and after the call.
C27_AppendOnly ==
    (scen = "arena" /\ aop.op = "allocnode") =>
        LET size == SizeofNode
                    + (LastNode.linkptr_ct + LastNode.dataptr_ct) * SizeofPtr
            short == LastSbuf(aop.pre).writer_len_remaining < size
        IN /\ sd.sl_sbuflist_entry_ct =
                 aop.pre.sl_sbuflist_entry_ct + (IF short THEN 1 ELSE 0)
           /\ short => /\ LastSbuf(sd).len = page_size
                       /\ LastSbuf(sd).strategy = SHARKYBUF_STRATEGY_MALLOC
           /\ LastNode.seg = sd.sl_sbuflist_entry_ct - 1
           /\ \A k \in 1..aop.pre.sl_sbuflist_entry_ct :
                 k # sd.sl_sbuflist_entry_ct => sd.slots[k] = aop.pre.slots[k]

\* the bytes node n takes: struct skiplist_node and its ptr[] slots
NodeEnd(n) == n.addr + SizeofNode + (n.linkptr_ct + n.dataptr_ct) * SizeofPtr

\* the buffers of the pool (as indexes of slots) node n lies inside
HoldingSegs(n) ==
    {k \in 1..sd.sl_sbuflist_entry_ct :
        /\ sd.slots[k].strategy = SHARKYBUF_STRATEGY_MALLOC
        /\ sd.slots[k].addr <= n.addr
        /\ NodeEnd(n) <= sd.slots[k].addr + sd.slots[k].len}

\* C28: after sdict_sl_init and any sequence of sdict_sl_allocnode calls
\* every node handed out lies inside exactly one buffer of the pool, below
\* that buffer's writer head, at the buffer and offset it was handed out
\* at, and no two nodes share a byte.
C28_NodesInsideOneSegment ==
    ArenaUp =>
        /\ \A i \in 1..Len(aop.nodes) :
              LET n == aop.nodes[i]
              IN /\ HoldingSegs(n) = {n.seg + 1}
                 /\ sd.slots[n.seg + 1].addr + n.off = n.addr
                 /\ NodeEnd(n) <= sd.slots[n.seg + 1].writer_ptr
        /\ \A i, j \in 1..Len(aop.nodes) :
              i < j => \/ NodeEnd(aop.nodes[i]) <= aop.nodes[j].addr
                       \/ NodeEnd(aop.nodes[j]) <= aop.nodes[i].addr

\* nodes in three buffers or more, two of them in a buffer that
\* sdict_sl_allocnode added, the later one reaching the buffer's end
C28_Witness ==
    /\ ArenaUp
    /\ sd.sl_sbuflist_entry_ct >= 3
    /\ \E i, j \in 1..Len(aop.nodes) :
          /\ i < j
          /\ aop.nodes[i].seg = aop.nodes[j].seg
          /\ aop.nodes[i].seg >= 1
          /\ NodeEnd(aop.nodes[i]) <= aop.nodes[j].addr
    /\ \E i \in 1..Len(aop.nodes) :
          NodeEnd(aop.nodes[i]) =
              sd.slots[aop.nodes[i].seg + 1].addr + page_size

\* the int at offset off of the node at addr, which lies in the first buffer
FirstSegInt(addr, off) == IntAt(sd.slots[1].mem, addr - sd.slots[1].addr + off)

\* sd->sl_headnode->ptr[i]
HeadPtr(i) ==
    PtrAt(sd.slots[1].mem,
          sd.sl_headnode - sd.slots[1].addr + SizeofNode + i * SizeofPtr)

\* C29: after sdict_sl_init the list buffer and one buffer of the pool are
\* allocated; sl_headnode and sl_sentinel are two nodes that share no byte;
\* the head node has linkptr_ct = SKIPLIST_MAX_LEVELS and dataptr_ct = 0,
\* the sentinel has both 0, and ptr[0] .. ptr[SKIPLIST_MAX_LEVELS - 1] of
\* the head node hold the address of the sentinel.
C29_InitHeadAndSentinel ==
    (scen = "arena" /\ aop.op = "init") =>
        /\ sd.sl_sbuflist_sbuf.strategy = SHARKYBUF_STRATEGY_MALLOC
        /\ sd.sl_sbuflist = sd.sl_sbuflist_sbuf.addr
        /\ sd.sl_sbuflist_entry_ct = 1
        /\ Len(sd.slots) = 1
        /\ sd.slots[1].strategy = SHARKYBUF_STRATEGY_MALLOC
        /\ sd.sl_headnode = sd.slots[1].addr
        /\ sd.sl_sentinel >= sd.sl_headnode + SizeofNode
                                + SKIPLIST_MAX_LEVELS * SizeofPtr
        /\ sd.sl_sentinel + SizeofNode <= sd.slots[1].addr + sd.slots[1].len
        /\ FirstSegInt(sd.sl_headnode, 0) = SKIPLIST_MAX_LEVELS
        /\ FirstSegInt(sd.sl_headnode, SizeofInt) = 0
        /\ FirstSegInt(sd.sl_sentinel, 0) = 0
        /\ FirstSegInt(sd.sl_sentinel, SizeofInt) = 0
        /\ \A i \in 0..(SKIPLIST_MAX_LEVELS - 1) : HeadPtr(i) = sd.sl_sentinel

\* sdict_sl_init has returned, the last slot of the head node holds the
\* address of the sentinel, which is not NULL
C29_Witness ==
    /\ scen = "arena" /\ aop.op = "init"
    /\ sd.sl_sentinel # 0
    /\ sd.sl_headnode # sd.sl_sentinel
    /\ HeadPtr(SKIPLIST_MAX_LEVELS - 1) = sd.sl_sentinel
    /\ HeadPtr(0) = sd.sl_sentinel

\* the addresses of the buffers of the pool of d
PoolAddrs(d) == {d.slots[k].addr : k \in 1..d.sl_sbuflist_entry_ct}

\* C30: sdict_sl_destruct, after sdict_sl_init and any number of
\* sdict_sl_allocnode calls, completes; it passes the address of every
\* buffer of the pool to free() once, then that of the list buffer, once
\* and last; every struct of the pool is left unallocated before the list
\* is released, and afterwards sl_sbuflist_entry_ct is 0, the list buffer
\* is unallocated and sl_headnode, sl_sentinel and sl_sbuflist are NULL.
C30_DestructReleasesAll ==
    (scen = "arena" /\ aop.op \in {"destruct", "destruct_fault", "abort"}) =>
        /\ aop.op = "destruct"
        /\ Len(aop.freed) = aop.pre.sl_sbuflist_entry_ct + 1
        /\ {aop.freed[i] : i \in 1..aop.pre.sl_sbuflist_entry_ct} = PoolAddrs(aop.pre)
        /\ aop.freed[Len(aop.freed)] = aop.pre.sl_sbuflist_sbuf.addr
        /\ aop.pre.sl_sbuflist_sbuf.addr \notin PoolAddrs(aop.pre)
        /\ \A k \in 1..aop.pre.sl_sbuflist_entry_ct :
              DisposePool(aop.pre).sd.slots[k].strategy =
                  SHARKYBUF_STRATEGY_UNALLOCATED
        /\ sd.sl_sbuflist_entry_ct = 0
        /\ sd.sl_sbuflist_sbuf.strategy = SHARKYBUF_STRATEGY_UNALLOCATED
        /\ sd.sl_sbuflist_sbuf.addr = 0
        /\ sd.sl_headnode = 0
        /\ sd.sl_sentinel = 0
        /\ sd.sl_sbuflist = 0

----------------------------------------------------------------------------
(* main() from its first statement: the switch on argc, pipe(), fork(),    *)
(* and the child that runs checkwords().  Before the fork prod is the one  *)
(* process there is: argc, what it wrote to stderr, and its position.      *)

MainInit(argc) ==
    [pc |-> "args", status |-> -1, argc |-> argc, stderr |-> <<>>,
     sbuf |-> sb_unallocated]

\* main is started with argc - 1 arguments; argv[1] is a number and argv[2]
\* a name.  The page is that of the pipeline runs or that of the arena
\* harness, the smallest one sdict_sl_init works with; the runs with the
\* large page are made for the longest name, with no edit or with MaxEd.
InitMain ==
    \E argc \in 1..MaxArgc, name \in Names, max_ed \in 0..MaxEd,
       ps \in {PipePage, ArenaPage} :
        /\ argc = 4 => ps = ArenaPage
        /\ argc \notin {3, 4} => ps = PipePage
        /\ ps = ArenaPage =>
              /\ \A other \in Names : Len(other) <= Len(name)
              /\ max_ed \in {0, MaxEd}
        /\ scen = "main"
        /\ page_size = ps
        /\ inp = [max_ed |-> max_ed, name |-> name, dict |-> FALSE,
                  zc |-> CharA + AlphabetSize - 1]
        /\ prod = MainInit(argc)
        /\ cons = IdleProc
        /\ pipe = IdlePipe
        /\ out = <<>>
        /\ hist = IdleHist
        /\ hb = sb_unallocated
        /\ hop = NoOp
        /\ sd = sd_cleared
        /\ aop = NoArenaOp

MFrame == UNCHANGED <<page_size, cons, out, hist, hb, hop, sd, aop>>

\* variant: one argument after the program name is taken like two
M_Args_one_argument ==
    /\ scen = "main" /\ prod.pc = "args"
    /\ IF prod.argc \in {2, 3, 4}
       THEN /\ \E d \in BOOLEAN :
                /\ prod.argc = 4 => d
                /\ d <=> page_size = ArenaPage
                /\ inp' = [inp EXCEPT !.dict = d]
            /\ prod' = [prod EXCEPT !.pc = "pipe"]
       ELSE /\ inp' = inp
            /\ prod' = [prod EXCEPT !.pc = "exited", !.status = 3,
                                    !.stderr = <<"Unexpected number of arguments",
                                                 "Usage">>]
    /\ UNCHANGED <<pipe, scen>> /\ MFrame

\* main: "Check and extract command-line arguments".  With argc == 3
\* dictpath is not assigned: it holds what the stack held, NULL or not.
\* The runs with a dictionary are those with the page of the arena.
M_Args ==
    /\ scen = "main" /\ prod.pc = "args"
    /\ IF prod.argc \in {3, 4}
       THEN /\ \E d \in BOOLEAN :
                /\ prod.argc = 4 => d
                /\ d <=> page_size = ArenaPage
                /\ inp' = [inp EXCEPT !.dict = d]
            /\ prod' = [prod EXCEPT !.pc = "pipe"]
       ELSE /\ inp' = inp
            /\ prod' = [prod EXCEPT !.pc = "exited", !.status = 3,
                                    !.stderr = <<"Unexpected number of arguments",
                                                 "Usage">>]
    /\ UNCHANGED <<pipe, scen>> /\ MFrame

\* main: "Create pipe"
M_Pipe ==
    /\ scen = "main" /\ prod.pc = "pipe"
    /\ \E ok \in BOOLEAN :
        IF ok
        THEN /\ pipe' = [data |-> <<>>, wr |-> {"prod"}, rd |-> {"prod"}]
             /\ prod' = [prod EXCEPT !.pc = "fork"]
        ELSE /\ pipe' = pipe
             /\ prod' = [prod EXCEPT !.pc = "exited", !.status = 4,
                                     !.stderr = <<"pipe">>]
    /\ UNCHANGED <<inp, scen>> /\ MFrame

\* main: "Fork": from here on the parent is prod and the child is cons
M_Fork ==
    /\ scen = "main" /\ prod.pc = "fork"
    /\ \E ok \in BOOLEAN :
        IF ok
        THEN /\ scen' = "pipe"
             /\ prod' = ProdInit
             /\ cons' = ConsInit
             /\ pipe' = [data |-> <<>>, wr |-> {"prod", "cons"},
                         rd |-> {"prod", "cons"}]
        ELSE /\ scen' = scen
             /\ prod' = [prod EXCEPT !.pc = "exited", !.status = 4,
                                     !.stderr = <<"fork">>]
             /\ cons' = cons
             /\ pipe' = IdlePipe
    /\ UNCHANGED <<page_size, inp, out, hist, hb, hop, sd, aop>>

\* the errors open, fstat, mmap, munmap and close of the dictionary end on
DictErrnos == {"ENOENT", "ENOMEM"}

KFrame == UNCHANGED <<page_size, inp, prod, out, hist, hb, hop, scen>>

\* checkwords: sdict_open(&sd, dictpath): open, fstat, mmap, sdict_sl_init
C_SdictOpen ==
    /\ scen = "pipe" /\ cons.pc = "sdict_open"
    /\ \E errno \in DictErrnos \cup {"none"} :
        IF errno # "none"
        THEN /\ cons' = Fail(cons, errno)
             /\ pipe' = CloseAll("cons")
             /\ UNCHANGED <<sd, aop>>
        ELSE \E r \in {sdict_sl_init(sd, aop.naddr)} :
             /\ sd' = r.sd
             /\ IF r.abort
                THEN /\ cons' = Exit(cons, 134)
                     /\ pipe' = CloseAll("cons")
                     /\ aop' = [aop EXCEPT !.op = "abort", !.pre = sd]
                ELSE /\ cons' = [cons EXCEPT !.pc = "catlines"]
                     /\ pipe' = pipe
                     /\ aop' = [op |-> "init", pre |-> sd,
                                nodes |-> <<NodeRec(r.sd, r.sd.sl_headnode,
                                                    SKIPLIST_MAX_LEVELS, 0),
                                            NodeRec(r.sd, r.sd.sl_sentinel, 0, 0)>>,
                                naddr |-> aop.naddr + 1 + r.sd.sl_sbuflist_entry_ct,
                                calls |-> aop.calls, oob |-> FALSE,
                                freed |-> <<>>]
    /\ KFrame

\* checkwords: sdict_close(&sd): sdict_sl_destruct, munmap, close
C_SdictClose ==
    /\ scen = "pipe" /\ cons.pc = "sdict_close"
    /\ \E errno \in DictErrnos \cup {"none"} :
        \E r \in {sdict_sl_destruct(sd)} :
           /\ sd' = r.sd
           /\ aop' = [aop EXCEPT !.op = IF r.abort THEN "abort" ELSE "destruct",
                                 !.pre = sd, !.nodes = <<>>, !.freed = r.freed]
           /\ IF r.abort
              THEN /\ errno = "none"
                   /\ cons' = Exit(cons, 134)
                   /\ pipe' = CloseAll("cons")
              ELSE IF errno # "none"
              THEN /\ cons' = Fail(cons, errno)
                   /\ pipe' = CloseAll("cons")
              ELSE /\ cons' = [cons EXCEPT !.pc = "dispose"]
                   /\ pipe' = pipe
    /\ KFrame

NextMain ==
    \/ M_Args
    \/ M_Pipe
    \/ M_Fork
    \/ C_SdictOpen
    \/ C_SdictClose
    \/ NextPipe

SpecMain == InitMain /\ [][NextMain]_vars

----------------------------------------------------------------------------
(* sb_realloc, usage and the exit status of main.                          *)

\* C31: sb_realloc(sb, new_len) on a malloc buffer with new_len > len keeps
\* the len bytes there were, zeroes the bytes from the old len to new_len,
\* leaves the writer head at the offset it had from the (moved or unmoved)
\* region and adds new_len - len to writer_len_remaining; strategy and
\* dirty stay.  On a buffer of another strategy, or with new_len <= len, an
\* assert fails and the struct is as it was.
C31_ReallocGrows ==
    scen = "buf" =>
        /\ hop.op = "realloc" =>
              /\ hop.pre.strategy = SHARKYBUF_STRATEGY_MALLOC
              /\ hop.rv > hop.pre.len
              /\ hb.len = hop.rv
              /\ Len(hb.mem) = hb.len
              /\ SubSeq(hb.mem, 1, hop.pre.len) = hop.pre.mem
              /\ \A i \in (hop.pre.len + 1)..hb.len : hb.mem[i] = NUL
              /\ WriterOff(hb) = WriterOff(hop.pre)
              /\ hb.writer_len_remaining =
                     hop.pre.writer_len_remaining + (hb.len - hop.pre.len)
              /\ hb.strategy = hop.pre.strategy
              /\ hb.dirty = hop.pre.dirty
        /\ (hop.op = "abort" /\ hop.call = "realloc") =>
              /\ \/ hop.pre.strategy # SHARKYBUF_STRATEGY_MALLOC
                 \/ hop.rv <= hop.pre.len
              /\ hb = hop.pre

\* a malloc buffer holding text was enlarged and moved
C31_Witness ==
    /\ scen = "buf" /\ hop.op = "realloc"
    /\ hb.addr # hop.pre.addr
    /\ hop.pre.dirty
    /\ hb.len = hop.pre.len + HarnessMaxGrow
    /\ \E i \in 1..hop.pre.len : hop.pre.mem[i] # NUL
    /\ hb.writer_ptr = hb.addr + WriterOff(hop.pre)

\* C32: main started with argc other than 3 or 4 writes the two messages
\* (the unexpected number of arguments, the usage line) to stderr and
\* returns 3; it never reaches pipe() or fork(), and no buffer is created.
C32_WrongArgcIsUsage ==
    scen = "main" =>
        /\ prod.argc \notin {3, 4} =>
              /\ prod.pc \in {"args", "exited"}
              /\ prod.pc = "exited" =>
                    /\ prod.status = 3
                    /\ prod.stderr = <<"Unexpected number of arguments", "Usage">>
              /\ pipe = IdlePipe
              /\ cons = IdleProc
              /\ prod.sbuf = sb_unallocated
              /\ sd = sd_cleared
        /\ (prod.pc = "exited" /\ prod.status = 3) => prod.argc \notin {3, 4}

\* main ended with status 3, started with more arguments than it takes
C32_Witness ==
    /\ scen = "main"
    /\ prod.argc = MaxArgc
    /\ prod.pc = "exited" /\ prod.status = 3
    /\ Len(prod.stderr) = 2

\* the step in which the first process (main, the parent) ends
ParentExits == prod.pc # "exited" /\ prod'.pc = "exited"

\* C33: the parent ends with status 0 exactly when hamming has returned,
\* fd[1] is closed and the child has ended with status 0; with status 5
\* exactly when the child has ended otherwise; with status 4 when pipe,
\* fork, mmap or vmsplice failed; it ends from waitpid only, after
\* close(fd[1]), or with a status that is not 0.
C33_ExitStatus ==
    [][ParentExits =>
         /\ prod'.status = 0 <=>
               (scen = "pipe" /\ prod.pc = "wait" /\ cons.pc = "exited"
                /\ cons.status = 0)
         /\ prod'.status = 5 <=>
               (scen = "pipe" /\ prod.pc = "wait" /\ cons.pc = "exited"
                /\ cons.status # 0)
         /\ (scen = "pipe" /\ prod.pc = "wait") =>
               /\ "prod" \notin pipe.wr
               /\ hist.flushes = hist'.flushes
         /\ (scen = "main" /\ prod.pc \in {"pipe", "fork"}) => prod'.status = 4
         /\ (scen = "pipe" /\ prod'.err # "none") => prod'.status = 4
         /\ prod'.status = 4 =>
               \/ scen = "main" /\ prod.pc \in {"pipe", "fork"}
               \/ scen = "pipe" /\ prod.pc \in {"hamming", "send"}
                  /\ prod'.err # "none"
    ]_vars

\* the child could not open the dictionary and ended with status 4; the
\* parent, done with hamming, ended with status 5
C33_Witness ==
    /\ scen = "pipe" /\ inp.dict
    /\ cons.pc = "exited" /\ cons.status = 4 /\ cons.err = "ENOENT"
    /\ prod.pc = "exited" /\ prod.status = 5
    /\ Len(hist.flushes) = 1

----------------------------------------------------------------------------
(* The enumeration of hamming as its comment describes it.                 *)

RECURSIVE Pow(_, _)
Pow(b, k) == IF k = 0 THEN 1 ELSE b * Pow(b, k - 1)

\* the ed-element sets of columns of a name of n letters, as increasing
\* tuples
ColTuples(n, ed) ==
    {t \in [1..ed -> 0..(n - 1)] : \A j \in 1..(ed - 1) : t[j] < t[j + 1]}

\* s comes before t in lexicographic order
LexBefore(s, t) ==
    \E j \in 1..Len(s) :
        /\ \A k \in 1..(j - 1) : s[k] = t[k]
        /\ s[j] < t[j]

\* the sets of ColTuples(n, ed) in lexicographic order
RECURSIVE LexSeq(_)
LexSeq(S) ==
    IF S = {} THEN <<>>
    ELSE LET first == CHOOSE s \in S : \A t \in S \ {s} : LexBefore(s, t)
         IN <<first>> \o LexSeq(S \ {first})

\* the sets of columns of every edit count from ed to max_ed, in order
RECURSIVE EditSets(_, _, _)
EditSets(n, ed, max_ed) ==
    IF ed > max_ed THEN <<>>
    ELSE LexSeq(ColTuples(n, ed)) \o EditSets(n, ed + 1, max_ed)

\* the letters a..z of the run
Letters == CharA..inp.zc

\* how many candidates the first j sets of columns of sets account for
RECURSIVE CandidatesUpTo(_, _)
CandidatesUpTo(sets, j) ==
    IF j = 0 THEN 0
    ELSE CandidatesUpTo(sets, j - 1) + Pow(Cardinality(Letters), Len(sets[j]))

\* the candidates of hist.gen that fall to the j-th set of columns
GenOfSet(sets, j) ==
    {i \in DOMAIN hist.gen :
        CandidatesUpTo(sets, j - 1) < i /\ i <= CandidatesUpTo(sets, j)}

\* hamming has left its loops
EnumerationOver == prod.pc \in {"final", "dispose", "close_wr", "wait"}

\* C34: the candidates come set of columns by set of columns, the sets of
\* ed columns in lexicographic order for ed = 1 .. max_ed; every letter
\* assignment to the columns of a set gives one candidate; every candidate
\* is as long as name, equals name outside the columns of its set and holds
\* letters in them; this for every length of name, shorter than max_ed and
\* zero included.
C34_EnumeratesEditSets ==
    scen = "pipe" =>
        LET sets == EditSets(Len(inp.name), 1, inp.max_ed) IN
        /\ Len(hist.gen) <= CandidatesUpTo(sets, Len(sets))
        /\ EnumerationOver => Len(hist.gen) = CandidatesUpTo(sets, Len(sets))
        /\ \A j \in 1..Len(sets) :
              /\ \A i \in GenOfSet(sets, j) :
                    /\ Len(hist.gen[i]) = Len(inp.name)
                    /\ \A col \in 0..(Len(inp.name) - 1) :
                          IF col \in Range(sets[j])
                          THEN hist.gen[i][col + 1] \in Letters
                          ELSE hist.gen[i][col + 1] = inp.name[col + 1]
              /\ \A i, k \in GenOfSet(sets, j) :
                    i # k => hist.gen[i] # hist.gen[k]
        /\ \A i \in DOMAIN hist.gen :
              /\ Len(hist.gen[i]) = Len(inp.name)
              /\ Cardinality({col \in 1..Len(inp.name) :
                                 hist.gen[i][col] # inp.name[col]}) <= inp.max_ed

----------------------------------------------------------------------------
(* What hamming hands to the pipe, and what catlines makes of it.          *)

\* the last rem bytes of the region mem
TailOf(mem, rem) == SubSeq(mem, Len(mem) - rem + 1, Len(mem))

\* C35: hamming's buffer always keeps writer_len_remaining >= 1, after
\* every sb_append_line_or_zeroes call; the region given to
\* sb_sendbuf_vmsplice ends in '\0'; a candidate whose text and '\n' are
\* exactly writer_len_remaining bytes is not appended: the buffer is sent
\* without it first.
C35_NeverFilledWithText ==
    scen = "pipe" =>
        /\ prod.pc \in {"append", "final", "send", "dispose"} =>
              prod.sbuf.writer_len_remaining >= 1
        /\ \A i \in DOMAIN hist.flushes :
              LET f == hist.flushes[i] IN
              /\ f.rem >= 1
              /\ f.mem[Len(f.mem)] = NUL
              /\ f.why = "nospace" =>
                    /\ Len(f.line) + 1 >= f.rem
                    /\ AllZero(TailOf(f.mem, f.rem))
        /\ (prod.pc = "append" /\ prod.sbuf.dirty) =>
              prod.sbuf.mem[WriterOff(prod.sbuf)] = LF

\* a candidate and its '\n' had exactly the room left: the buffer was sent
\* without it and it was appended to the next buffer
C35_Witness ==
    /\ scen = "pipe"
    /\ \E i \in DOMAIN hist.flushes :
          /\ hist.flushes[i].why = "nospace"
          /\ Len(hist.flushes[i].line) + 1 = hist.flushes[i].rem
          /\ hist.flushes[i].n < Len(hist.gen)
          /\ hist.gen[hist.flushes[i].n + 1] = hist.flushes[i].line


\* the candidates appended to the buffer that flush i passes on: those
\* generated after flush i - 1
ChunkLines(i) ==
    SubSeq(hist.gen,
           (IF i = 1 THEN 0 ELSE hist.flushes[i - 1].n) + 1,
           hist.flushes[i].n)

\* C36: every buffer hamming gives to sb_sendbuf_vmsplice has the length of
\* the page and holds one or more whole lines (candidate and '\n'), the
\* candidates appended since the previous flush, followed by '\0' only
\* from the cursor to the end of the region; no line is partly in one
\* buffer and partly in the next; no buffer without a line is given, when
\* every line fits in a fresh buffer.
C36_ChunksAreWholeLines ==
    (scen = "pipe" /\ page_size > LongestLine) =>
        \A i \in DOMAIN hist.flushes :
            LET f == hist.flushes[i]
                text == LinesOf(ChunkLines(i))
            IN /\ Len(f.mem) = page_size
               /\ Len(ChunkLines(i)) >= 1
               /\ f.rem = page_size - Len(text)
               /\ f.mem = text \o Zeros(f.rem)
               /\ \A k \in 1..Len(f.mem) :
                     f.mem[k] = NUL => k > Len(text)
               /\ i = Len(hist.flushes) /\ prod.pc = "send" =>
                     /\ prod.sbuf.mem = f.mem
                     /\ prod.reader_len_remaining + prod.iov_off = page_size

\* a buffer sent for lack of room and the last one sent by the final
\* flush, both passed to the pipe whole
C36_Witness ==
    /\ scen = "pipe" /\ page_size > LongestLine
    /\ prod.pc = "dispose"
    /\ Len(hist.flushes) >= 2
    /\ hist.flushes[1].why = "nospace"
    /\ Len(ChunkLines(1)) >= 1
    /\ hist.flushes[Len(hist.flushes)].why = "final"
    /\ hist.sent = FlushedText(hist.flushes, Len(hist.flushes))


\* catlines is in sb_buf_to_stdout or about to wipe: its buffer is as the
\* last call of sb_recvbuf_read left it
Emitting == scen = "pipe" /\ ~inp.dict /\ cons.pc \in {"write", "wipe"}

\* C37: the fills of catlines stay aligned with the regions of hamming:
\* whenever catlines has a filled buffer, under every interleaving and
\* whatever single read and vmsplice calls moved, the buffer is one whole
\* region that hamming gave to sb_sendbuf_vmsplice (the fills-th one), or
\* it is all '\0' and the fill met end of file; so '\0' bytes are only
\* ever a trailing run of the buffer that sb_buf_to_stdout trims.
C37_FillsAreWholeChunks ==
    Emitting =>
        \/ /\ cons.fills <= Len(hist.flushes)
           /\ cons.sbuf.mem = hist.flushes[cons.fills].mem
        \/ /\ cons.read_rv = 1
           /\ AllZero(cons.sbuf.mem)


\* hamming with max_ed < 1 generates nothing and passes nothing to the
\* pipe; the first sb_recvbuf_read of catlines returns 1 and nothing is
\* written to standard output
NothingToSend ==
    /\ hist.gen = <<>> /\ hist.flushes = <<>>
    /\ hist.sent = <<>> /\ pipe.data = <<>>
    /\ prod.pc \notin {"append", "send"}
    /\ out = <<>>
    /\ cons.fills <= 1
    /\ cons.pc # "write"
    /\ cons.fills = 1 => cons.read_rv = 1 /\ cons.pc # "read"
    /\ (cons.pc = "exited" /\ cons.err = "none") => cons.status = 0
    /\ (prod.pc = "exited" /\ prod.err = "none") =>
          prod.status = (IF cons.status = 0 THEN 0 ELSE 5)

\* at sb_dispose and after it: a final flush was made iff a candidate was
\* generated, and then it holds the last candidate and went to the pipe
LastChunkSent ==
    /\ FinalFlushes # {} <=> hist.gen # <<>>
    /\ hist.gen # <<>> <=> inp.max_ed >= 1
    /\ hist.gen # <<>> =>
          LET f == hist.flushes[Len(hist.flushes)] IN
          /\ f.why = "final"
          /\ f.n = Len(hist.gen)
          /\ f.mem[Len(f.mem) - f.rem] = LF
          /\ hist.sent = FlushedText(hist.flushes, Len(hist.flushes))

\* C38: hamming makes the final flush iff it generated a candidate.  With
\* max_ed < 1 it passes no byte to the pipe, the first fill of catlines
\* meets end of file, catlines writes nothing to standard output, and both
\* processes end with status 0.  With a candidate generated the last
\* buffer is always passed on: when hamming disposes of its buffer no
\* candidate is left in it unsent.
C38_FinalFlushIffCandidate ==
    /\ [](scen = "pipe" =>
            /\ inp.max_ed < 1 => NothingToSend
            /\ (prod.pc = "dispose" \/ HammingReturned) => LastChunkSent)
    /\ (inp.max_ed < 1 => <>BothDone)

\* max_ed = 0: both processes have ended with status 0 after one fill that
\* met end of file, nothing sent and nothing written
C38_Witness ==
    /\ scen = "pipe" /\ inp.max_ed < 1
    /\ BothDone
    /\ cons.fills = 1 /\ cons.wipes = 1 /\ cons.drains = 1
    /\ hist.sent = <<>> /\ out = <<>>


\* the numbers of a sequence without repetition
OncEach(q) == \A i, j \in DOMAIN q : q[i] = q[j] => i = j

\* the process holds a buffer it may use: the struct is allocated and the
\* region it names was not released
HoldsLive(proc) ==
    /\ proc.sbuf.strategy # SHARKYBUF_STRATEGY_UNALLOCATED
    /\ proc.region >= 1
    /\ proc.region \notin Range(proc.freed)
    /\ Range(proc.freed) = 1..(proc.region - 1)

\* every region the process made was released, the struct is unallocated
AllReleased(proc) ==
    /\ proc.sbuf = sb_unallocated
    /\ Range(proc.freed) = 1..proc.region
    /\ Len(proc.freed) = proc.region

\* checkwords is between sdict_open and sdict_close
DictOpen ==
    /\ inp.dict
    /\ cons.pc \in {"catlines", "read", "wipe", "sdict_close"}

\* the list buffer and every buffer of the pool of d are allocated, at
\* different addresses
ArenaHeld(d) ==
    /\ d.sl_sbuflist_sbuf.strategy = SHARKYBUF_STRATEGY_MALLOC
    /\ d.sl_sbuflist_entry_ct >= 1
    /\ \A k \in 1..d.sl_sbuflist_entry_ct :
          d.slots[k].strategy = SHARKYBUF_STRATEGY_MALLOC
    /\ Cardinality(PoolAddrs(d) \cup {d.sl_sbuflist_sbuf.addr})
          = d.sl_sbuflist_entry_ct + 1

\* C39: on a run without a failing call no buffer is leaked or released
\* twice.  Every mapping of hamming (the first one and each replacement
\* sb_sendbuf_vmsplice made) is unmapped once before hamming returns, the
\* buffer of catlines or checkwords is freed once before the child exits,
\* the list buffer and every buffer of the pool of the dictionary are freed
\* once by sdict_close; while a process works on its buffer the buffer is
\* not released, and after the release nothing works on it.
C39_ReleasedExactlyOnce ==
    scen = "pipe" =>
        /\ OncEach(prod.freed) /\ Range(prod.freed) \subseteq 1..prod.region
        /\ OncEach(cons.freed) /\ Range(cons.freed) \subseteq 1..cons.region
        /\ cons.region <= 1
        /\ prod.pc \in {"append", "final", "send", "dispose"} => HoldsLive(prod)
        /\ cons.pc \in {"read", "write", "wipe", "sdict_close", "dispose"} =>
              HoldsLive(cons)
        /\ HammingReturned => AllReleased(prod)
        /\ (cons.pc = "close_rd" \/ (cons.pc = "exited" /\ cons.status = 0)) =>
              /\ AllReleased(cons)
              /\ cons.region = 1
              /\ inp.dict =>
                    /\ aop.op = "destruct"
                    /\ ArenaHeld(aop.pre)
                    /\ OncEach(aop.freed)
                    /\ Range(aop.freed) = PoolAddrs(aop.pre)
                                             \cup {aop.pre.sl_sbuflist_sbuf.addr}
                    /\ sd.sl_sbuflist_entry_ct = 0
                    /\ sd.sl_sbuflist_sbuf = sb_unallocated
        /\ DictOpen => /\ ArenaHeld(sd)
                       /\ aop.op = "init" /\ aop.freed = <<>>
        /\ (inp.dict /\ cons.pc = "dispose") => aop.op = "destruct"

\* main with a dictionary ended with status 0: hamming unmapped its first
\* mapping and the replacement, checkwords freed its buffer, sdict_close
\* freed the pool and the list buffer
C39_Witness ==
    /\ scen = "pipe" /\ inp.dict
    /\ prod.pc = "exited" /\ prod.status = 0
    /\ cons.pc = "exited" /\ cons.status = 0
    /\ prod.region = 2 /\ prod.freed = <<1, 2>>
    /\ cons.freed = <<1>>
    /\ Len(aop.freed) >= 2


----------------------------------------------------------------------------
(* The cursor of the list buffer of the arena.                             *)

\* C40: after sdict_sl_init and after any sequence of sdict_sl_allocnode
\* calls the cursor of sl_sbuflist_sbuf follows the list of buffers: its
\* offset is sl_sbuflist_entry_ct * sizeof(struct sharkybuf) and
\* writer_len_remaining is len minus that, for the buffers that
\* sdict_sl_allocnode added as for the first one made by sdict_sl_init.
C40_DirectoryCursorTracksList ==
    ArenaUp =>
        /\ WriterOff(sd.sl_sbuflist_sbuf)
              = sd.sl_sbuflist_entry_ct * SizeofSharkybuf
        /\ sd.sl_sbuflist_sbuf.writer_len_remaining
              = sd.sl_sbuflist_sbuf.len - sd.sl_sbuflist_entry_ct * SizeofSharkybuf

====
